---- MODULE Spec2Model ----
(***************************************************************************)
(* A state-machine model of rapidtide_main (rapidtide/workflows/           *)
(* rapidtide.py): startup and lifecycle markers, the persisted run-options *)
(* record, the pass loop (similarity, peak fit, despeckle, regressor       *)
(* refinement), delay refinement and the final GLM.                        *)
(*                                                                         *)
(* Data is modelled on a text-input dataset: the spatial domain is one     *)
(* dimensional (nativespaceshape = xsize), every location that survives    *)
(* the correlation mask is a valid unit, lags are small integers and a     *)
(* regressor is a short integer vector.  Python's None is the empty        *)
(* sequence.                                                               *)
(***************************************************************************)
EXTENDS Integers, Sequences, FiniteSets, TLC

VARIABLES
    pc,                 \* position of rapidtide_main
    exitedfrom,         \* position at which the run terminated ("" while running)
    exitcause,          \* why the run terminated ("" while running)
    optiondict,         \* the run options (inputs and recorded values)
    runoptions,         \* contents of <outputname>_desc-runoptions_info.json
    stagelog,           \* currentstage labels in the order they were persisted
    done_marker,        \* <outputname>_DONE.txt exists
    running_marker,     \* <outputname>_ISRUNNING.txt exists
    loglines,           \* warnings and critical messages sent to the logger
    numspatiallocs,     \* number of spatial locations (all valid)
    internalrefineincludemask_valid,
    internalrefineexcludemask_valid,
    internaloffsetincludemask_valid,
    internaloffsetexcludemask_valid,
    numpasses,
    thepass,
    stoprefining,
    refinestopreason,
    lagtimes,
    fitmask,
    despecklepass,      \* index of the despeckle sub-pass about to run
    lastnumdespeckled,
    outmaparray,
    medianlags,
    internaldespeckleincludemask,
    despecklehistory,   \* per sub-pass of this pass: suspects found, and whether refit
    thisinternalrefineexcludemask_valid,
    refinemask,
    numinmask,
    fallbackused,       \* this pass fell back to the static exclude mask
    resampnonosref_y,   \* the probe regressor on the data time grid
    previousnormoutputdata,
    normoutputdata,
    regressormse,
    refinedhistory,     \* the last two regressors that became the reference
    probeversion,       \* pass whose refinement produced resampref_y (0: initial)
    genlagtcversion,    \* pass whose refinement produced genlagtc (0: initial)
    probetmasked,       \* the temporal mask has been applied to resampref_y
    simcalcs,           \* passes for which the similarity function was computed
    fitcalls,           \* number of fitcorr calls
    passlagtimes,       \* lag map at the end of lag estimation of the last pass
    delayoffset,
    lagtimescorrected,
    lagstouse,
    glmcalls,           \* number of final GLM calls
    mklnumthreads,      \* the MKL thread count in force (mkl.set_num_threads)
    lagwindow,          \* (lagmininpts, lagmaxinpts) once computed
    corroutversion,     \* pass whose similarity step produced corrout (0: none)
    steplog,            \* the processing steps in the order they ran
    thefitter,          \* the SimilarityFunctionFitter, None before it is built
    sidelobetime,       \* result of the autocorrelation check of this pass
    shmlog,             \* shared-memory segments allocated and cleaned up, in order
    nullpcts,           \* what sigFromDistributionData returns for the sham data
    pcts,               \* the percentile thresholds of the last null distribution
    \* the delay calibration (refinedelay.py)
    trainingratios,     \* smoothglmderivratios[::-1] of the synthetic data
    trainingdelays,     \* lagtimes[::-1] of the synthetic data
    ratiotooffsetfunc,  \* the trained interpolant, None before training
    maplimits,
    filteredglmderivratios,
    delayevals,         \* the ratiotodelay evaluations made so far
    \* retroglm (retroglm.py)
    entrypoint,         \* the function of the module the caller asks for
    inputargs,          \* command line handed to the parser
    args,
    outputfiles,        \* the files under the data file root
    fmrifile,           \* dimensions of the 4-D input
    retrolocals,        \* local variables of retroglm
    glmfrommapscall     \* the call of the GLM routine, None before it

vars == <<pc, exitedfrom, exitcause, optiondict, runoptions, stagelog,
          done_marker, running_marker, loglines, numspatiallocs,
          internalrefineincludemask_valid, internalrefineexcludemask_valid,
          internaloffsetincludemask_valid, internaloffsetexcludemask_valid,
          numpasses, thepass, stoprefining, refinestopreason, lagtimes, fitmask,
          despecklepass, lastnumdespeckled, outmaparray, medianlags,
          internaldespeckleincludemask, despecklehistory,
          thisinternalrefineexcludemask_valid, refinemask, numinmask, fallbackused,
          resampnonosref_y, previousnormoutputdata, normoutputdata, regressormse,
          refinedhistory, probeversion, genlagtcversion, probetmasked, simcalcs, fitcalls, passlagtimes,
          delayoffset, lagtimescorrected, lagstouse, glmcalls,
          mklnumthreads, lagwindow, corroutversion, steplog,
          thefitter, sidelobetime, shmlog, nullpcts, pcts,
          trainingratios, trainingdelays, ratiotooffsetfunc, maplimits,
          filteredglmderivratios, delayevals,
          entrypoint, inputargs, args, outputfiles, fmrifile, retrolocals,
          glmfrommapscall>>

\* groups of variables, for UNCHANGED
markers == <<done_marker, running_marker>>
staticmasks == <<numspatiallocs, internalrefineincludemask_valid,
                 internalrefineexcludemask_valid, internaloffsetincludemask_valid,
                 internaloffsetexcludemask_valid>>
loopctl == <<numpasses, thepass, stoprefining, refinestopreason>>
fitstate == <<lagtimes, fitmask>>
despecklestate == <<despecklepass, lastnumdespeckled, outmaparray, medianlags,
                    internaldespeckleincludemask, despecklehistory>>
maskstate == <<thisinternalrefineexcludemask_valid, refinemask, numinmask, fallbackused>>
regstate == <<resampnonosref_y, previousnormoutputdata, normoutputdata, regressormse,
              refinedhistory, probeversion, genlagtcversion, probetmasked>>
counters == <<simcalcs, fitcalls, passlagtimes>>
glmstate == <<delayoffset, lagtimescorrected, lagstouse, glmcalls>>
persisted == <<optiondict, runoptions, stagelog>>
stepstate == <<mklnumthreads, lagwindow, corroutversion, steplog>>
fitterstate == <<thefitter, sidelobetime>>
sigstate == <<nullpcts, pcts>>
calibration == <<trainingratios, trainingdelays, ratiotooffsetfunc, maplimits,
                 filteredglmderivratios, delayevals>>
retrostate == <<entrypoint, inputargs, args, outputfiles, fmrifile, retrolocals,
                glmfrommapscall>>
\* everything rapidtide_main works on, except its position
runstate == <<persisted, markers, loglines, staticmasks, loopctl, fitstate,
              despecklestate, maskstate, regstate, counters, glmstate, stepstate,
              fitterstate, shmlog, sigstate>>

----------------------------------------------------------------------------
\* Bounds of the model

MaxPasses == 2
MaxDespecklePasses == 2
LoopUnits == 1
GLMUnits == 2
DespeckleUnits == 5
NumKnots == 2
MaxRatio == 4
DelayUnits == 2
RetroUnits == 2
MaxTimepoints == 3
MaxDerivs == 2
MaxCpus == 2
MklMaxThreads == 2

----------------------------------------------------------------------------
\* Values

None == <<>>
Units == 1..numspatiallocs
Lags == {0, 2}
SidelobeTimes == {2}
Regressors == {<<0, 0>>, <<0, 2>>}
DelayOffsets == {0, 1}

Abs(x) == IF x < 0 THEN -x ELSE x

ZeroMap(n) == [u \in 1..n |-> 0]
OneMap(n) == [u \in 1..n |-> 1]
MaskOf(n, S) == [u \in 1..n |-> IF u \in S THEN 1 ELSE 0]

\* tide_stats.getmasksize: the number of nonzero entries of a mask
getmasksize(mask) == Cardinality({u \in DOMAIN mask : mask[u] # 0})

\* a label that always names the first pass
passlabel_firstpass(stage, k) == [stage |-> stage, pass |-> 1]

\* the currentstage label: f"{stage}{thepass}" for the per-pass stages
passlabel(stage, k) == [stage |-> stage, pass |-> k]
label(stage) == [stage |-> stage, pass |-> 0]

\* tide_io.writedicttojson(optiondict, f"{outputname}_desc-runoptions_info.json")
writedicttojson(od) ==
    /\ runoptions' = od
    /\ stagelog' = Append(stagelog, od.currentstage)

Terminated == pc \in {"finished", "returned", "exited", "raised"}

\* the run ends at the current position
Terminate(how, cause) ==
    /\ pc' = how
    /\ exitedfrom' = pc
    /\ exitcause' = cause

Goto(next) ==
    /\ pc' = next
    /\ UNCHANGED <<exitedfrom, exitcause>>

----------------------------------------------------------------------------
\* Startup (rapidtide.py 258-282)

\* an unlink that leaves the file in place
unlinkdone_kept(marker) == marker

\* Path(f"{outputname}_DONE.txt").unlink(missing_ok=True)
unlinkdone(marker) == FALSE

DeleteOldDone ==
    /\ pc = "start"
    /\ done_marker' = unlinkdone(done_marker)
    /\ Goto("canary")
    /\ UNCHANGED <<persisted, running_marker, loglines, staticmasks, calibration, retrostate, sigstate, shmlog, fitterstate, loopctl, fitstate,
                   despecklestate, maskstate, regstate, counters, glmstate,
                   stepstate>>

\* Path(f"{outputname}_ISRUNNING.txt").touch()
CreateCanary ==
    /\ pc = "canary"
    /\ running_marker' = TRUE
    /\ Goto("init")
    /\ UNCHANGED <<persisted, done_marker, loglines, staticmasks, calibration, retrostate, sigstate, shmlog, fitterstate, loopctl, fitstate,
                   despecklestate, maskstate, regstate, counters, glmstate,
                   stepstate>>

WriteInit ==
    /\ pc = "init"
    /\ optiondict' = [optiondict EXCEPT !.currentstage = label("init")]
    /\ writedicttojson(optiondict')
    /\ Goto("workers")
    /\ UNCHANGED <<markers, loglines, staticmasks, calibration, retrostate, sigstate, shmlog, fitterstate, loopctl, fitstate,
                   despecklestate, maskstate, regstate, counters, glmstate,
                   stepstate>>

----------------------------------------------------------------------------
\* Shared memory, worker processes and MKL threads (rapidtide.py 311-391)

\* the MKL library is present (import mkl succeeded)
mklexists == TRUE

\* disablemkl(numprocs): one MKL thread when more than one worker is used
disablemkl(numprocs, current) ==
    IF mklexists /\ numprocs > 1 THEN 1 ELSE current

\* enablemkl(numthreads)
enablemkl(numthreads, current) ==
    IF mklexists THEN numthreads ELSE current

\* don't use shared memory if there is only one process
choosesharedmem(sharedmem, nprocs, alwaysmultiproc) ==
    IF nprocs = 1 /\ ~alwaysmultiproc THEN FALSE ELSE sharedmem

\* nprocs < 1 stands for the CPU count (tide_multiproc.maxcpus)
resolvenprocs(nprocs, cpus) == IF nprocs < 1 THEN cpus ELSE nprocs

\* mklthreads outside 1..mklmaxthreads becomes mklmaxthreads
clampmklthreads(mklthreads, mklmaxthreads) ==
    IF 1 <= mklthreads /\ mklthreads <= mklmaxthreads THEN mklthreads ELSE mklmaxthreads

\* the shared-memory decision is taken on the requested worker count, which
\* is resolved to the CPU count afterwards
SetupWorkers ==
    /\ pc = "workers"
    /\ \E cpus \in 1..MaxCpus :
          LET shm == choosesharedmem(optiondict.sharedmem, optiondict.nprocs,
                                     optiondict.alwaysmultiproc)
              workers == resolvenprocs(optiondict.nprocs, cpus)
              threads == IF mklexists
                         THEN clampmklthreads(optiondict.mklthreads, MklMaxThreads)
                         ELSE optiondict.mklthreads
          IN  /\ optiondict' = [optiondict EXCEPT !.sharedmem = shm,
                                                  !.nprocs = workers,
                                                  !.mklthreads = threads]
              /\ mklnumthreads' = enablemkl(threads, mklnumthreads)
    /\ Goto("readdata")
    /\ UNCHANGED <<runoptions, stagelog, markers, loglines, staticmasks, calibration, retrostate, sigstate, shmlog, fitterstate, loopctl,
                   fitstate, despecklestate, maskstate, regstate, counters, glmstate,
                   lagwindow, corroutversion, steplog>>

\* one processing step: the pass, what it read, the workers it used and the
\* MKL thread count in force while it ran
stepentry(step, k, reads, numprocs, threads) ==
    [step |-> step, pass |-> k, reads |-> reads, nprocs |-> numprocs,
     threads |-> threads, window |-> None]

----------------------------------------------------------------------------
\* Shared-memory buffers (rapidtide.py 811-820, 1627-1639, 1688-1704, 3026-3037,
\* 3107-3113, 3220-3232, 3245-3269)

\* the buffers that are allocated together
sharedbuffers(group) ==
    CASE group = "fmridata" -> <<"fmri_data_valid">>
      [] group = "glmfmridata" -> <<"fmri_data_valid_glm">>
      [] group = "correlation" -> <<"corrout", "gaussout", "windowout", "outcorrarray">>
      [] group = "refinement" ->
            <<"shiftedtcs", "weights", "paddedshiftedtcs", "paddedweights">>
      [] group = "coherence" ->
            <<"coherencefunc", "coherencepeakval", "coherencepeakfreq">>
      [] group = "deconvolution" -> <<"wienerdeconv", "wpeak">>
      [] group = "glmmaps" -> <<"glmmean", "rvalue", "r2value", "fitNorm", "fitcoeff">>
      [] group = "glmtimecourses" -> <<"movingsignal", "lagtc", "filtereddata">>

\* tide_util.allocshared / numpy2shared for each buffer of a group, when cond holds
allocshared(cond, group) ==
    IF cond
    THEN [i \in DOMAIN sharedbuffers(group) |->
             [op |-> "alloc", name |-> sharedbuffers(group)[i]]]
    ELSE <<>>

\* tide_util.cleanup_shm for each buffer of a group, when cond holds
cleanup_shm(cond, group) ==
    IF cond
    THEN [i \in DOMAIN sharedbuffers(group) |->
             [op |-> "cleanup", name |-> sharedbuffers(group)[i]]]
    ELSE <<>>

\* the GLM section is entered for these runs (rapidtide.py 3154)
glmsection(od) == od.doglmfilt \/ od.docvrmap \/ od.refinedelay

\* the refinement arrays are allocated for these runs
refinementarrays(od) ==
    od.passes > 1 \/ od.globalpreselect \/ od.convergencethresh # None

\* the data is read again, and moved to a new segment, before the GLM
rereadforglm(od) ==
    od.gausssigma > 0 \/ od.glmsourcefile # None \/ od.docvrmap

\* the segment fmri_data_valid_shm refers to at the GLM
glmdatasegment(od) == IF rereadforglm(od) THEN "glmfmridata" ELSE "fmridata"

----------------------------------------------------------------------------
\* Reading the data and checking the configuration (rapidtide.py 451-492)

\* tide_util.startendcheck yields validstart..validend; the valid duration
validtimepoints(od) == od.validend - od.validstart + 1

\* a range check that accepts every lag
lagexceedshalf_never(lag, od) == FALSE

\* abs(lag) > (validend - validstart + 1) * fmritr / 2.0
lagexceedshalf(lag, od) == 2 * Abs(lag) > validtimepoints(od) * od.realtr

ReadData ==
    /\ pc = "readdata"
    /\ IF optiondict.realtr <= 0
       THEN Terminate("raised", "notimestep")
       ELSE IF lagexceedshalf(optiondict.lagmin, optiondict)
       THEN Terminate("raised", "lagmin")
       ELSE IF lagexceedshalf(optiondict.lagmax, optiondict)
       THEN Terminate("raised", "lagmax")
       ELSE Goto("masks")
    /\ UNCHANGED <<persisted, markers, loglines, staticmasks, calibration, retrostate, sigstate, shmlog, fitterstate, loopctl, fitstate,
                   despecklestate, maskstate, regstate, counters, glmstate,
                   stepstate>>

----------------------------------------------------------------------------
\* The correlation mask and the static refine masks (rapidtide.py 724-806)

\* corrmask * internalrefineincludemask * (1 - internalrefineexcludemask)
staticrefinemask(corrmask, include, exclude) ==
    [u \in DOMAIN corrmask |->
        corrmask[u]
        * (IF include = None THEN 1 ELSE include[u])
        * (IF exclude = None THEN 1 ELSE 1 - exclude[u])]

PrepareMasks ==
    /\ pc = "masks"
    /\ \E corrmask \in {ZeroMap(numspatiallocs), OneMap(numspatiallocs)} :
          IF getmasksize(corrmask) = 0
          THEN /\ Terminate("raised", "emptycorrmask")
               /\ UNCHANGED shmlog
          ELSE IF /\ (internalrefineincludemask_valid # None
                         \/ internalrefineexcludemask_valid # None)
                  /\ getmasksize(staticrefinemask(corrmask,
                                                  internalrefineincludemask_valid,
                                                  internalrefineexcludemask_valid)) = 0
          THEN /\ Terminate("raised", "emptystaticrefinemask")
               /\ UNCHANGED shmlog
          ELSE /\ Goto("confound")
               \* move fmri_data_valid into shared memory
               /\ shmlog' = shmlog \o allocshared(optiondict.sharedmem, "fmridata")
    /\ UNCHANGED <<persisted, markers, loglines, staticmasks, calibration, retrostate, sigstate, fitterstate, loopctl, fitstate,
                   despecklestate, maskstate, regstate, counters, glmstate,
                   stepstate>>

----------------------------------------------------------------------------
\* Confound regression (rapidtide.py 823-895)

\* confounds are regressed out when a confound file was given
doconfounds(od) == od.confoundfilespec # None

ConfoundRegress ==
    /\ pc = "confound"
    /\ \E confoundr2isNone \in BOOLEAN :
          IF doconfounds(optiondict) /\ confoundr2isNone
          THEN Terminate("exited", "noconfoundregressors")
          ELSE Goto("fakerun")
    /\ IF doconfounds(optiondict)
       THEN /\ steplog' = Append(steplog,
                  stepentry("confoundregress", 0, 0, optiondict.nprocs,
                            disablemkl(optiondict.nprocs, mklnumthreads)))
            /\ mklnumthreads' = enablemkl(optiondict.mklthreads, mklnumthreads)
       ELSE UNCHANGED <<steplog, mklnumthreads>>
    /\ UNCHANGED <<persisted, markers, loglines, staticmasks, calibration, retrostate, sigstate, shmlog, fitterstate, loopctl, fitstate,
                   despecklestate, maskstate, regstate, counters, glmstate,
                   lagwindow, corroutversion>>

----------------------------------------------------------------------------
\* fakerun, and the initial reference on the data time grid (rapidtide.py 1319-1396)

\* the temporal mask is applied to the initial probe when a temporal include
\* mask or a temporal exclude mask is given (rapidtide.py 1425-1446)
initialtmask(od) == od.tincludemaskname # None \/ od.texcludemaskname # None

\* the temporal mask is applied to a refined probe when a temporal include
\* mask is given (rapidtide.py 2854-2860)
refinedtmask(od) == od.tincludemaskname # None

FakeRunOrResample ==
    /\ pc = "fakerun"
    /\ IF optiondict.fakerun
       THEN /\ Terminate("returned", "fakerun")
            /\ UNCHANGED regstate
       ELSE /\ Goto("searchrange")
            /\ previousnormoutputdata' = resampnonosref_y
            /\ refinedhistory' = <<resampnonosref_y>>
            /\ probetmasked' = initialtmask(optiondict)
            /\ UNCHANGED <<resampnonosref_y, normoutputdata, regressormse, probeversion,
                           genlagtcversion>>
    /\ UNCHANGED <<persisted, markers, loglines, staticmasks, calibration, retrostate, sigstate, shmlog, fitterstate, loopctl, fitstate,
                   despecklestate, maskstate, counters, glmstate,
                   stepstate>>

----------------------------------------------------------------------------
\* The lag search window (rapidtide.py 1496-1528)

\* Python's int() of h/2: truncation towards zero
inthalves(h) == IF h >= 0 THEN h \div 2 ELSE -((-h) \div 2)

\* lag / corrtr in half points, corrtr = fmritr / oversampfactor
lagintwicepts(lag, od) == (2 * lag * od.oversampfactor) \div od.realtr

\* int((-lagmin / corrtr) - 0.5)
lagmininpts(od) == inthalves(lagintwicepts(-od.lagmin, od) - 1)

\* int((lagmax / corrtr) + 0.5)
lagmaxinpts(od) == inthalves(lagintwicepts(od.lagmax, od) + 1)

CheckSearchRange ==
    /\ pc = "searchrange"
    /\ lagwindow' = <<lagmininpts(optiondict), lagmaxinpts(optiondict)>>
    /\ IF lagmaxinpts(optiondict) + lagmininpts(optiondict) < 3
       THEN Terminate("raised", "narrowsearchrange")
       ELSE Goto("allocate")
    /\ UNCHANGED <<persisted, markers, loglines, staticmasks, calibration, retrostate, sigstate, shmlog, fitterstate, loopctl, fitstate,
                   despecklestate, maskstate, regstate, counters, glmstate,
                   mklnumthreads, corroutversion, steplog>>

----------------------------------------------------------------------------
\* Array allocation, the initial lagged-regressor generator and the peak
\* fitter (rapidtide.py 1601-1738)

\* the fitter keeps the lag modulus it was constructed with
SimilarityFunctionFitter(lagmod) == [lagmod |-> lagmod]


AllocateArrays ==
    /\ pc = "allocate"
    /\ lagtimes' = ZeroMap(numspatiallocs)
    /\ fitmask' = ZeroMap(numspatiallocs)
    /\ outmaparray' = ZeroMap(numspatiallocs)
    /\ genlagtcversion' = 0
    \* thefitter = tide_classes.SimilarityFunctionFitter(lagmod=optiondict["lagmod"], ...)
    /\ thefitter' = SimilarityFunctionFitter(optiondict.lagmod)
    /\ shmlog' = shmlog \o allocshared(optiondict.sharedmem, "correlation")
                        \o allocshared(optiondict.sharedmem
                                          /\ refinementarrays(optiondict), "refinement")
    /\ Goto("preprocessingdone")
    /\ UNCHANGED <<persisted, markers, loglines, staticmasks, calibration, retrostate, sigstate, sidelobetime, loopctl,
                   despecklepass, lastnumdespeckled, medianlags,
                   internaldespeckleincludemask, despecklehistory, maskstate,
                   resampnonosref_y, previousnormoutputdata, normoutputdata, regressormse, refinedhistory,
                   probeversion, probetmasked, counters, glmstate,
                   stepstate>>

----------------------------------------------------------------------------
\* Entering the pass loop (rapidtide.py 1817-1835)

Max(a, b) == IF a >= b THEN a ELSE b

\* numpasses: passes without a convergence threshold, else max(passes, maxpasses)
passbudget(od) ==
    IF od.convergencethresh = None
    THEN od.passes
    ELSE Max(od.passes, od.maxpasses)

PreprocessingDone ==
    /\ pc = "preprocessingdone"
    /\ stoprefining' = FALSE
    /\ refinestopreason' = "passesreached"
    /\ numpasses' = passbudget(optiondict)
    /\ optiondict' = [optiondict EXCEPT !.currentstage = label("preprocessingdone")]
    /\ writedicttojson(optiondict')
    /\ Goto("passloop")
    /\ UNCHANGED <<markers, loglines, staticmasks, calibration, retrostate, sigstate, shmlog, fitterstate, thepass, fitstate,
                   despecklestate, maskstate, regstate, counters, glmstate,
                   stepstate>>

\* the lag modulus that is set before every autocorrelation check
DEFAULT_LAGMOD == 1000

\* sidelobetime / 2.0
halfsidelobe(t) == t \div 2

\* Step -1 of a pass: the options after the autocorrelation check found a
\* sidelobe at found[1], or none (found = None)
autocorrelationoptions(od, found) ==
    [od EXCEPT !.lagmod = IF found # None /\ od.fix_autocorrelation
                          THEN halfsidelobe(found[1])
                          ELSE DEFAULT_LAGMOD,
               !.despeckle_thresh = IF found # None
                                    THEN Max(@, halfsidelobe(found[1]))
                                    ELSE @]

\* for thepass in range(1, numpasses + 1): if stoprefining: break
PassLoop ==
    /\ pc = "passloop"
    /\ IF thepass < numpasses
       THEN /\ thepass' = thepass + 1
            /\ IF stoprefining
               THEN Goto("loopexit")
               ELSE Goto("precorrelation")
       ELSE /\ thepass' = thepass
            /\ Goto("loopexit")
    \* Step 0: estimate the null distribution of this pass
    /\ IF thepass < numpasses /\ ~stoprefining /\ optiondict.numestreps > 0
       THEN /\ steplog' = Append(steplog,
                  stepentry("nulldistribution", thepass', probeversion,
                            optiondict.nprocs,
                            disablemkl(optiondict.nprocs, mklnumthreads)))
            /\ mklnumthreads' = enablemkl(optiondict.mklthreads, mklnumthreads)
            \* pcts, pcts_fit, sigfit = tide_stats.sigFromDistributionData(...)
            /\ pcts' = nullpcts
       ELSE UNCHANGED <<steplog, mklnumthreads, pcts>>
    \* Step -1: check the regressor for periodic components
    /\ \E found \in {None} \cup {<<t>> : t \in SidelobeTimes} :
          IF thepass < numpasses /\ ~stoprefining /\ optiondict.check_autocorrelation
          THEN /\ sidelobetime' = found
               /\ optiondict' = autocorrelationoptions(optiondict, found)
          ELSE /\ found = None
               /\ UNCHANGED <<optiondict, sidelobetime>>
    /\ UNCHANGED <<runoptions, stagelog, thefitter, markers, loglines, staticmasks, calibration, retrostate, nullpcts, shmlog, numpasses, stoprefining,
                   refinestopreason, fitstate, despecklestate, maskstate, regstate,
                   counters, glmstate, lagwindow, corroutversion>>

----------------------------------------------------------------------------
\* Step 1 and step 2 of a pass: similarity and lag estimation (rapidtide.py 2222-2417)

PreCorrelation ==
    /\ pc = "precorrelation"
    /\ optiondict' = [optiondict EXCEPT
                         !.currentstage = passlabel("precorrelation_pass", thepass)]
    /\ writedicttojson(optiondict')
    /\ Goto("similarity")
    /\ UNCHANGED <<markers, loglines, staticmasks, calibration, retrostate, sigstate, shmlog, fitterstate, loopctl, fitstate,
                   despecklestate, maskstate, regstate, counters, glmstate,
                   stepstate>>

\* a peak prefit that runs before the similarity functions exist
similaritysteps_peakfirst(similaritymetric, simstep, peakstep) ==
    IF similaritymetric = "hybrid" THEN <<peakstep, simstep>> ELSE <<simstep>>

\* Step 1 computes the similarity functions; step 1b, the peak prefit, follows
\* it when the similarity metric is hybrid
similaritysteps(similaritymetric, simstep, peakstep) ==
    IF similaritymetric = "hybrid" THEN <<simstep, peakstep>> ELSE <<simstep>>

\* tide_calcsimfunc.correlationpass against the current reference
CalcSimilarity ==
    /\ pc = "similarity"
    /\ simcalcs' = Append(simcalcs, [pass |-> thepass, probe |-> probeversion])
    /\ corroutversion' = thepass
    /\ LET simthreads == disablemkl(optiondict.nprocs, mklnumthreads)
           restored == enablemkl(optiondict.mklthreads, mklnumthreads)
           simstep == [stepentry("similarity", thepass, probeversion,
                                 optiondict.nprocs, simthreads)
                       EXCEPT !.window = lagwindow]
           \* Step 1b: peak prefit on the similarity functions just computed
           peakstep == stepentry("peakeval", thepass, corroutversion',
                                 optiondict.nprocs,
                                 disablemkl(optiondict.nprocs, restored))
       IN  /\ steplog' = steplog \o similaritysteps(optiondict.similaritymetric,
                                                    simstep, peakstep)
           /\ mklnumthreads' = restored
    /\ Goto("presimfuncfit")
    /\ UNCHANGED <<persisted, markers, loglines, staticmasks, calibration, retrostate, sigstate, shmlog, fitterstate, loopctl, fitstate,
                   despecklestate, maskstate, regstate, fitcalls, passlagtimes, glmstate,
                   lagwindow>>

PreSimFuncFit ==
    /\ pc = "presimfuncfit"
    /\ optiondict' = [optiondict EXCEPT
                         !.currentstage = passlabel("presimfuncfit_pass", thepass)]
    /\ writedicttojson(optiondict')
    /\ Goto("fitcorr")
    /\ UNCHANGED <<markers, loglines, staticmasks, calibration, retrostate, sigstate, shmlog, fitterstate, loopctl, fitstate,
                   despecklestate, maskstate, regstate, counters, glmstate,
                   stepstate>>

\* outcomes of the peak fit that are considered: every unit is fit, every unit
\* but the first is fit, no unit is fit
FitOutcomes(n) == {OneMap(n), MaskOf(n, 2..n), ZeroMap(n)}

\* tide_simfuncfit.fitcorr, despeckling=False: every unit gets a lag and a fit flag
FitCorr ==
    /\ pc = "fitcorr"
    /\ \E newlags \in [Units -> Lags], newfit \in FitOutcomes(numspatiallocs) :
          /\ lagtimes' = newlags
          /\ fitmask' = newfit
    /\ fitcalls' = fitcalls + 1
    /\ steplog' = Append(steplog,
          stepentry("fitcorr", thepass, corroutversion, optiondict.nprocs,
                    disablemkl(optiondict.nprocs, mklnumthreads)))
    /\ mklnumthreads' = enablemkl(optiondict.mklthreads, mklnumthreads)
    /\ despecklepass' = 0
    /\ lastnumdespeckled' = 1000000
    /\ despecklehistory' = <<>>
    /\ IF optiondict.despeckle_passes > 0
       THEN Goto("despeckle")
       ELSE Goto("prerefine")
    /\ UNCHANGED <<persisted, markers, loglines, staticmasks, calibration, retrostate, sigstate, shmlog, fitterstate, loopctl,
                   outmaparray, medianlags, internaldespeckleincludemask,
                   maskstate, regstate, simcalcs, passlagtimes, glmstate,
                   lagwindow, corroutversion>>

----------------------------------------------------------------------------
\* Step 2b: despeckling (rapidtide.py 2427-2500)

Median3(x, y, z) ==
    LET lo == IF x <= y /\ x <= z THEN x ELSE IF y <= z THEN y ELSE z
        hi == IF x >= y /\ x >= z THEN x ELSE IF y >= z THEN y ELSE z
    IN  x + y + z - lo - hi

\* the size of the median filter
mediankernel == 3

\* ndimage.median_filter(a, 3) on a one-dimensional map, boundary mode "reflect"
median_filter(a) ==
    LET n == Len(a)
        at(i) == a[IF i < 1 THEN 1 ELSE IF i > n THEN n ELSE i]
    IN  [u \in 1..n |-> Median3(at(u - 1), at(u), at(u + 1))]

NotSuspect == -1000000

\* np.where(np.abs(outmaparray - medianlags) > despeckle_thresh, medianlags, -1000000.0)
despeckleinitlags(out, med, thresh) ==
    [u \in DOMAIN out |-> IF Abs(out[u] - med[u]) > thresh THEN med[u] ELSE NotSuspect]

\* a loop test that also refits when the suspect count has not decreased
despecklecontinues_notstrict(last, num) == last >= num /\ num > 0

\* lastnumdespeckled > numdespeckled > 0
despecklecontinues(last, num) == last > num /\ num > 0

\* np.where(np.abs(outmaparray - medianlags) > despeckle_thresh, medianlags, 0.0)
despeckleincludemask(out, med, thresh) ==
    [u \in DOMAIN out |-> IF Abs(out[u] - med[u]) > thresh THEN med[u] ELSE 0]

\* one iteration of "for despecklepass in range(despeckle_passes)"; the
\* iteration that ends the loop also computes internaldespeckleincludemask
DespeckleSubpass ==
    /\ pc = "despeckle"
    /\ LET out == lagtimes
           med == median_filter(out)
           initlags == despeckleinitlags(out, med, optiondict.despeckle_thresh)
           suspects == {u \in Units : initlags[u] # NotSuspect}
           numdespeckled == Cardinality(suspects)
           refit == Len(initlags) > 0
                    /\ despecklecontinues(lastnumdespeckled, numdespeckled)
           last == ~refit \/ despecklepass + 1 >= optiondict.despeckle_passes
       IN  /\ outmaparray' = out
           /\ medianlags' = med
           /\ despecklehistory' =
                 Append(despecklehistory, [suspects |-> suspects, refit |-> refit])
           /\ IF refit
              THEN /\ lastnumdespeckled' = numdespeckled
                   \* fitcorr, despeckling=True: only the suspects are refit
                   /\ \E newlags \in [suspects -> Lags], newfit \in FitOutcomes(numspatiallocs) :
                         /\ lagtimes' = [u \in Units |->
                               IF u \in suspects THEN newlags[u] ELSE lagtimes[u]]
                         /\ fitmask' = [u \in Units |->
                               IF u \in suspects THEN newfit[u] ELSE fitmask[u]]
                   /\ fitcalls' = fitcalls + 1
                   /\ steplog' = Append(steplog,
                         stepentry("despeckle", thepass, corroutversion,
                                   optiondict.nprocs,
                                   disablemkl(optiondict.nprocs, mklnumthreads)))
                   /\ mklnumthreads' = enablemkl(optiondict.mklthreads, mklnumthreads)
                   /\ despecklepass' = despecklepass + 1
              ELSE UNCHANGED <<lastnumdespeckled, fitstate, fitcalls, despecklepass,
                               steplog, mklnumthreads>>
           /\ IF last
              THEN /\ internaldespeckleincludemask' =
                         despeckleincludemask(out, med, optiondict.despeckle_thresh)
                   /\ Goto("prerefine")
              ELSE /\ UNCHANGED internaldespeckleincludemask
                   /\ Goto("despeckle")
    /\ UNCHANGED <<persisted, markers, loglines, staticmasks, calibration, retrostate, sigstate, shmlog, fitterstate, loopctl,
                   maskstate, regstate, simcalcs, passlagtimes, glmstate,
                   lagwindow, corroutversion>>

----------------------------------------------------------------------------
\* Step 3: regressor refinement (rapidtide.py 2591-2914)

PreRefine ==
    /\ pc = "prerefine"
    /\ optiondict' = [optiondict EXCEPT
                         !.currentstage = passlabel("prerefine_pass", thepass)]
    /\ writedicttojson(optiondict')
    /\ passlagtimes' = [pass |-> thepass, lags |-> lagtimes]
    /\ Goto("refine")
    /\ UNCHANGED <<markers, loglines, staticmasks, calibration, retrostate, sigstate, shmlog, fitterstate, loopctl, fitstate,
                   despecklestate, maskstate, regstate, simcalcs, fitcalls, glmstate,
                   stepstate>>

\* thepass < passes or convergencethresh is not None or globalpreselect
refinethispass(od, k) ==
    k < od.passes \/ od.convergencethresh # None \/ od.globalpreselect

\* mask[np.where(include == 0)] = 0; mask[np.where(exclude != 0.0)] = 0
zeroexcluded(mask, include, exclude) ==
    [u \in DOMAIN mask |->
        IF \/ (include # None /\ include[u] = 0)
           \/ (exclude # None /\ exclude[u] # 0)
        THEN 0
        ELSE mask[u]]

\* the exclude mask extended with the despeckled units (rapidtide.py 2635-2647)
despeckledexcludemask(static, despmask) ==
    IF static = None
    THEN [u \in DOMAIN despmask |-> IF despmask[u] = 0 THEN 0 ELSE 1]
    ELSE [u \in DOMAIN despmask |->
            IF despmask[u] # 0 THEN 1 ELSE IF static[u] > 0 THEN 1 ELSE 0]

\* tide_refineregressor.makerefinemask: fit mask, include and exclude masks and
\* the strength / lag / width thresholds
makerefinemask(lagmask, include, exclude, threshmask) ==
    [u \in DOMAIN lagmask |->
        lagmask[u]
        * (IF include = None THEN 1 ELSE include[u])
        * (IF exclude = None THEN 1 ELSE 1 - exclude[u])
        * threshmask[u]]

\* outcomes of the strength / lag / width thresholds that are considered:
\* every unit passes, only the first unit fails, every unit fails
ThresholdOutcomes(n) == {OneMap(n), MaskOf(n, 2..n), ZeroMap(n)}

logline(msg, k) == [msg |-> msg, pass |-> k]

\* np.uint16(fitmask) is fitmask itself (fitmask is allocated as uint16), so
\* zeroing entries of offsetmask and of overallmask zeroes them in fitmask
RefineMask ==
    /\ pc = "refine"
    /\ refinethispass(optiondict, thepass)
    /\ LET offsetmask ==
              IF optiondict.refineoffset
              THEN zeroexcluded(fitmask, internaloffsetincludemask_valid,
                                internaloffsetexcludemask_valid)
              ELSE fitmask
           offsetwarn ==
              IF optiondict.refineoffset /\ getmasksize(offsetmask) = 0
              THEN <<logline("cannot exclude voxels from offset calculation mask", thepass)>>
              ELSE <<>>
           keepstatic == optiondict.refinedespeckled \/ optiondict.despeckle_passes = 0
           extended == despeckledexcludemask(internalrefineexcludemask_valid,
                                             internaldespeckleincludemask)
           overallmask ==
              IF keepstatic
              THEN offsetmask
              ELSE zeroexcluded(offsetmask, internalrefineincludemask_valid, extended)
           fallback == ~keepstatic /\ getmasksize(overallmask) = 0
           fallbackwarn ==
              IF fallback
              THEN <<logline("cannot exclude despeckled voxels from refinement", thepass)>>
              ELSE <<>>
           thisexclude ==
              IF keepstatic \/ fallback
              THEN internalrefineexcludemask_valid
              ELSE extended
       IN  /\ fitmask' = overallmask
           /\ thisinternalrefineexcludemask_valid' = thisexclude
           /\ fallbackused' = fallback
           /\ \E threshmask \in ThresholdOutcomes(numspatiallocs) :
                 refinemask' = makerefinemask(fitmask', internalrefineincludemask_valid,
                                              thisexclude, threshmask)
           /\ numinmask' = getmasksize(refinemask')
           /\ IF numinmask' = 0
              THEN /\ loglines' = loglines \o offsetwarn \o fallbackwarn
                                   \o <<logline("No voxels in refine mask", thepass)>>
                   /\ Terminate("exited", "emptyrefinemask")
              ELSE /\ loglines' = loglines \o offsetwarn \o fallbackwarn
                   /\ Goto("dorefine")
    /\ UNCHANGED <<persisted, markers, staticmasks, calibration, retrostate, sigstate, shmlog, fitterstate, loopctl, lagtimes,
                   despecklestate, regstate, counters, glmstate,
                   stepstate>>

SkipRefine ==
    /\ pc = "refine"
    /\ ~refinethispass(optiondict, thepass)
    /\ Goto("passloop")
    /\ UNCHANGED <<persisted, markers, loglines, staticmasks, calibration, retrostate, sigstate, shmlog, fitterstate, loopctl, fitstate,
                   despecklestate, maskstate, regstate, counters, glmstate,
                   stepstate>>

RECURSIVE sumsquares(_, _, _)
sumsquares(a, b, i) ==
    IF i > Len(a) THEN 0
    ELSE (a[i] - b[i]) * (a[i] - b[i]) + sumsquares(a, b, i + 1)

\* rapidtide.tests.utils.mse: the mean squared difference of two vectors
mse(vec1, vec2) == sumsquares(vec2, vec1, 1) \div Len(vec1)

\* a reference that has already been replaced by the new regressor
msereference_replaced(new, previous) == new

\* the regressor against which the convergence metric is taken
msereference(new, previous) == previous

\* a stop decision whose budget test lets one pass too many through
stopdecision_late(od, k, themse, reason) ==
    IF od.convergencethresh # None
    THEN IF k > od.maxpasses
         THEN [stop |-> TRUE, reason |-> "maxpassesreached"]
         ELSE IF themse < od.convergencethresh[1]
         THEN [stop |-> TRUE, reason |-> "convergence"]
         ELSE [stop |-> FALSE, reason |-> reason]
    ELSE IF k > od.passes
         THEN [stop |-> TRUE, reason |-> "passesreached"]
         ELSE [stop |-> FALSE, reason |-> reason]

\* the convergence / budget decision at the end of a successful refinement
stopdecision(od, k, themse, reason) ==
    IF od.convergencethresh # None
    THEN IF k >= od.maxpasses
         THEN [stop |-> TRUE, reason |-> "maxpassesreached"]
         ELSE IF themse < od.convergencethresh[1]
         THEN [stop |-> TRUE, reason |-> "convergence"]
         ELSE [stop |-> FALSE, reason |-> reason]
    ELSE IF k >= od.passes
         THEN [stop |-> TRUE, reason |-> "passesreached"]
         ELSE [stop |-> FALSE, reason |-> reason]

\* alignvoxels, prenorm, dorefine, the convergence check and the new reference
DoRefine ==
    /\ pc = "dorefine"
    /\ \E voxelsprocessed_rr \in {0, numinmask} :
          IF voxelsprocessed_rr > 0
          THEN \E new \in Regressors :
                  LET themse == mse(new, msereference(new, previousnormoutputdata))
                      decision == stopdecision(optiondict, thepass, themse,
                                               refinestopreason)
                  IN  /\ normoutputdata' = new
                      /\ regressormse' = themse
                      /\ stoprefining' = decision.stop
                      /\ refinestopreason' = decision.reason
                      /\ probeversion' = thepass
                      /\ resampnonosref_y' = new
                      /\ previousnormoutputdata' = new
                      /\ genlagtcversion' = thepass
                      /\ probetmasked' = refinedtmask(optiondict)
                      /\ refinedhistory' = <<refinedhistory[Len(refinedhistory)], new>>
                      /\ UNCHANGED loglines
          ELSE /\ loglines' = Append(loglines, logline("refinement failed", thepass))
               /\ stoprefining' = TRUE
               /\ refinestopreason' = "emptymask"
               /\ UNCHANGED regstate
    \* alignvoxels shifts the timecourses by the lags of this pass
    /\ steplog' = Append(steplog,
          stepentry("refine", thepass, corroutversion, optiondict.nprocs,
                    disablemkl(optiondict.nprocs, mklnumthreads)))
    /\ mklnumthreads' = enablemkl(optiondict.mklthreads, mklnumthreads)
    /\ Goto("passloop")
    /\ UNCHANGED <<persisted, markers, staticmasks, calibration, retrostate, sigstate, shmlog, fitterstate, numpasses, thepass, fitstate,
                   despecklestate, maskstate, counters, glmstate,
                   lagwindow, corroutversion>>

----------------------------------------------------------------------------
\* After the loop (rapidtide.py 2965-2970, 3147-3153)

LoopExit ==
    /\ pc = "loopexit"
    /\ optiondict' = [optiondict EXCEPT
                         !.actual_passes = IF optiondict.convergencethresh = None
                                           THEN optiondict.passes
                                           ELSE thepass - 1,
                         !.refinestopreason = refinestopreason]
    \* the coherence arrays, and the deconvolution arrays and their release
    /\ shmlog' = shmlog
          \o allocshared(optiondict.sharedmem /\ optiondict.calccoherence, "coherence")
          \o allocshared(optiondict.sharedmem /\ optiondict.dodeconv, "deconvolution")
          \o cleanup_shm(optiondict.sharedmem /\ optiondict.dodeconv, "deconvolution")
    /\ Goto("preglm")
    /\ UNCHANGED <<runoptions, stagelog, markers, loglines, staticmasks, calibration, retrostate, sigstate, fitterstate, loopctl,
                   fitstate, despecklestate, maskstate, regstate, counters, glmstate,
                   stepstate>>

PreGLM ==
    /\ pc = "preglm"
    /\ optiondict' = [optiondict EXCEPT !.currentstage = label("preglm")]
    /\ writedicttojson(optiondict')
    \* setting up the GLM section: the data segment is replaced when the data
    \* is read again, and the result arrays are allocated
    /\ shmlog' = shmlog
          \o cleanup_shm(optiondict.sharedmem /\ glmsection(optiondict)
                            /\ rereadforglm(optiondict), "fmridata")
          \o allocshared(optiondict.sharedmem /\ glmsection(optiondict)
                            /\ rereadforglm(optiondict), "glmfmridata")
          \o allocshared(optiondict.sharedmem /\ glmsection(optiondict), "glmmaps")
          \o allocshared(optiondict.sharedmem /\ glmsection(optiondict), "glmtimecourses")
    /\ Goto("delayrefine")
    /\ UNCHANGED <<markers, loglines, staticmasks, calibration, retrostate, sigstate, fitterstate, loopctl, fitstate,
                   despecklestate, maskstate, regstate, counters, glmstate,
                   stepstate>>

----------------------------------------------------------------------------
\* Delay refinement and the final GLM (rapidtide.py 3154, 3332-3450)

\* lagtimescorrected = lagtimes + delayoffset
correctlags(lags, offset) == [u \in DOMAIN lags |-> lags[u] + offset[u]]

DelayRefine ==
    /\ pc = "delayrefine"
    /\ IF glmsection(optiondict) /\ optiondict.refinedelay
       THEN /\ \E offsets \in [Units -> DelayOffsets] :
                  /\ delayoffset' = offsets
                  /\ lagtimescorrected' = correctlags(lagtimes, offsets)
            \* getderivratios runs its GLM with the thread count left in force
            /\ steplog' = Append(steplog,
                  stepentry("delayglm", thepass, genlagtcversion, optiondict.nprocs,
                            mklnumthreads))
       ELSE UNCHANGED <<delayoffset, lagtimescorrected, steplog>>
    /\ Goto("glm")
    /\ UNCHANGED <<persisted, markers, loglines, staticmasks, calibration, retrostate, sigstate, shmlog, fitterstate, loopctl, fitstate,
                   despecklestate, maskstate, regstate, counters, lagstouse, glmcalls,
                   mklnumthreads, lagwindow, corroutversion>>

\* a choice of lag map with the two branches exchanged
chooselagstouse_swapped(filterwithrefineddelay, lags, corrected) ==
    IF filterwithrefineddelay THEN lags ELSE corrected

\* the lag map handed to glmfrommaps
chooselagstouse(filterwithrefineddelay, lags, corrected) ==
    IF filterwithrefineddelay THEN corrected ELSE lags

\* lagtimescorrected is a local name that is bound only by the delay refinement
FinalGLM ==
    /\ pc = "glm"
    /\ IF glmsection(optiondict) /\ (optiondict.doglmfilt \/ optiondict.docvrmap)
       THEN IF optiondict.filterwithrefineddelay /\ lagtimescorrected = None
            THEN /\ Terminate("raised", "lagtimescorrectedunbound")
                 /\ UNCHANGED <<lagstouse, glmcalls, steplog, shmlog>>
            ELSE /\ lagstouse' = chooselagstouse(optiondict.filterwithrefineddelay,
                                                 lagtimes, lagtimescorrected)
                 /\ glmcalls' = glmcalls + 1
                 \* glmfrommaps is called with the thread count left in force
                 /\ steplog' = Append(steplog,
                       stepentry("glm", thepass, genlagtcversion, optiondict.nprocs,
                                 mklnumthreads))
                 \* del fmri_data_valid
                 /\ shmlog' = shmlog \o cleanup_shm(optiondict.sharedmem,
                                                     glmdatasegment(optiondict))
                 /\ Goto("saveoptions")
       ELSE /\ Goto("saveoptions")
            /\ UNCHANGED <<lagstouse, glmcalls, steplog, shmlog>>
    /\ UNCHANGED <<persisted, markers, loglines, staticmasks, calibration, retrostate, sigstate, fitterstate, loopctl, fitstate,
                   despecklestate, maskstate, regstate, counters, delayoffset,
                   lagtimescorrected, mklnumthreads, lagwindow, corroutversion>>

----------------------------------------------------------------------------
\* Saving and shutdown (rapidtide.py 3570-3572, 3902-3937, 4140-4155)

\* the refine mask is saved, and then deleted, after these runs
refinemasksaved(od) ==
    (od.passes > 1 \/ od.globalpreselect) /\ od.refinestopreason # "emptymask"

\* the options are written, the maps are saved, and the per-unit result
\* arrays are deleted (del refinemask, del lagtimes, del fitmask)
SaveOptions ==
    /\ pc = "saveoptions"
    /\ writedicttojson(optiondict)
    /\ despecklehistory' = <<>>
    /\ passlagtimes' = None
    /\ IF optiondict.numestreps > 0 /\ pcts = None
       THEN \* the significance masks: pcts[i] with pcts None is a TypeError
            /\ shmlog' = shmlog
                  \o cleanup_shm(optiondict.sharedmem /\ optiondict.calccoherence,
                                 "coherence")
                  \o cleanup_shm(optiondict.sharedmem
                                    /\ (optiondict.doglmfilt \/ optiondict.docvrmap),
                                 "glmmaps")
            /\ Terminate("raised", "pctsnone")
            /\ UNCHANGED <<lagtimes, fitmask, refinemask>>
       ELSE /\ lagtimes' = None
            /\ fitmask' = None
            /\ refinemask' = IF refinemasksaved(optiondict) THEN None ELSE refinemask
            /\ shmlog' = shmlog
                  \o cleanup_shm(optiondict.sharedmem /\ optiondict.calccoherence,
                                 "coherence")
                  \o cleanup_shm(optiondict.sharedmem
                                    /\ (optiondict.doglmfilt \/ optiondict.docvrmap),
                                 "glmmaps")
                  \o cleanup_shm(optiondict.sharedmem, "correlation")
            /\ Goto("finalsave")
    /\ UNCHANGED <<optiondict, markers, loglines, staticmasks, calibration, retrostate, sigstate, fitterstate, loopctl,
                   despecklepass, lastnumdespeckled, outmaparray, medianlags,
                   internaldespeckleincludemask, thisinternalrefineexcludemask_valid,
                   numinmask, fallbackused, regstate, simcalcs, fitcalls, glmstate,
                   stepstate>>

FinalSave ==
    /\ pc = "finalsave"
    /\ optiondict' = [optiondict EXCEPT !.currentstage = label("done")]
    /\ writedicttojson(optiondict')
    \* clean up
    /\ shmlog' = shmlog
          \o cleanup_shm(optiondict.sharedmem /\ optiondict.passes > 1, "refinement")
          \o cleanup_shm(optiondict.sharedmem /\ optiondict.doglmfilt, "glmtimecourses")
    /\ Goto("unlinkcanary")
    /\ UNCHANGED <<markers, loglines, staticmasks, calibration, retrostate, sigstate, fitterstate, loopctl, fitstate,
                   despecklestate, maskstate, regstate, counters, glmstate,
                   stepstate>>

\* an unlink that leaves the canary file in place
unlinkcanary_kept(marker) == marker

\* Path(f"{outputname}_ISRUNNING.txt").unlink()
unlinkcanary(marker) == FALSE

\* delete the canary file
UnlinkCanary ==
    /\ pc = "unlinkcanary"
    /\ running_marker' = unlinkcanary(running_marker)
    /\ Goto("touchdone")
    /\ UNCHANGED <<persisted, done_marker, loglines, staticmasks, calibration, retrostate, sigstate, shmlog, fitterstate, loopctl, fitstate,
                   despecklestate, maskstate, regstate, counters, glmstate,
                   stepstate>>

\* Path(f"{outputname}_DONE.txt").touch(), then rapidtide_main returns
TouchDone ==
    /\ pc = "touchdone"
    /\ done_marker' = TRUE
    /\ Terminate("finished", "completed")
    /\ UNCHANGED <<persisted, running_marker, loglines, staticmasks, calibration, retrostate, sigstate, shmlog, fitterstate, loopctl, fitstate,
                   despecklestate, maskstate, regstate, counters, glmstate,
                   stepstate>>

----------------------------------------------------------------------------
\* Initial states: the options and input masks of a run

NoLabel == label("unset")

\* the static mask inputs considered for n units: absent, empty, one unit, all units
MaskChoices(n) == {None, MaskOf(n, {}), MaskOf(n, {1}), MaskOf(n, 1..n)}

OptionSpace ==
    [passes : 1..MaxPasses,
     maxpasses : 1..MaxPasses,
     convergencethresh : {None, <<1>>},
     globalpreselect : BOOLEAN,
     despeckle_passes : 0..MaxDespecklePasses,
     despeckle_thresh : {1},
     refinedespeckled : BOOLEAN,
     refineoffset : BOOLEAN,
     doglmfilt : BOOLEAN,
     docvrmap : BOOLEAN,
     refinedelay : BOOLEAN,
     filterwithrefineddelay : BOOLEAN,
     fakerun : BOOLEAN,
     realtr : {0, 1},
     oversampfactor : {1},
     lagmin : {-5, -3, -2, 0},
     lagmax : {1, 2, 3, 5},
     validstart : {0},
     validend : {7},
     currentstage : {NoLabel},
     refinestopreason : {"unset"},
     actual_passes : {-1}]

\* the options of the confound regression, the workers and the optional steps
WorkerSpace ==
    [confoundfilespec : {None, <<"confounds">>},
     nprocs : {-1, 1, 2},
     alwaysmultiproc : BOOLEAN,
     sharedmem : {TRUE},
     mklthreads : {1, MklMaxThreads, MklMaxThreads + 1},
     numestreps : {0, 1},
     similaritymetric : {"correlation", "hybrid"},
     check_autocorrelation : BOOLEAN,
     fix_autocorrelation : BOOLEAN,
     lagmod : {DEFAULT_LAGMOD},
     calccoherence : BOOLEAN,
     dodeconv : BOOLEAN,
     gausssigma : {0, 1},
     glmsourcefile : {None},
     tincludemaskname : {None, <<"tinclude">>},
     texcludemaskname : {None, <<"texclude">>}]

\* the state before rapidtide_main runs, for options od, n units, the probe
\* regressor on the data time grid and the static masks
beforerun(od, n, probe, rinc, rexc, oinc, oexc) ==
    /\ optiondict = od
    /\ runoptions = None
    /\ stagelog = <<>>
    /\ running_marker = FALSE
    /\ loglines = <<>>
    /\ numspatiallocs = n
    /\ internalrefineincludemask_valid = rinc
    /\ internalrefineexcludemask_valid = rexc
    /\ internaloffsetincludemask_valid = oinc
    /\ internaloffsetexcludemask_valid = oexc
    /\ numpasses = 0
    /\ thepass = 0
    /\ stoprefining = FALSE
    /\ refinestopreason = "unset"
    /\ lagtimes = None
    /\ fitmask = None
    /\ despecklepass = 0
    /\ lastnumdespeckled = 0
    /\ outmaparray = None
    /\ medianlags = None
    /\ internaldespeckleincludemask = None
    /\ despecklehistory = <<>>
    /\ thisinternalrefineexcludemask_valid = None
    /\ refinemask = None
    /\ numinmask = 0
    /\ fallbackused = FALSE
    /\ resampnonosref_y = probe
    /\ previousnormoutputdata = None
    /\ normoutputdata = None
    /\ regressormse = -1
    /\ refinedhistory = <<>>
    /\ probeversion = 0
    /\ genlagtcversion = 0
    /\ probetmasked = FALSE
    /\ simcalcs = <<>>
    /\ fitcalls = 0
    /\ passlagtimes = None
    /\ delayoffset = None
    /\ lagtimescorrected = None
    /\ lagstouse = None
    /\ glmcalls = 0
    /\ mklnumthreads = MklMaxThreads
    /\ lagwindow = None
    /\ corroutversion = 0
    /\ steplog = <<>>
    /\ thefitter = None
    /\ sidelobetime = None
    /\ shmlog = <<>>
    /\ pcts = None

\* no delay calibration in progress
nocalibration ==
    /\ trainingratios = None
    /\ trainingdelays = None
    /\ ratiotooffsetfunc = None
    /\ maplimits = None
    /\ filteredglmderivratios = None
    /\ delayevals = <<>>

\* retroglm is not running
noretro ==
    /\ entrypoint = ""
    /\ inputargs = {}
    /\ args = None
    /\ outputfiles = None
    /\ fmrifile = None
    /\ retrolocals = None
    /\ glmfrommapscall = None

\* rapidtide_main is not running
norun ==
    /\ beforerun(None, 0, None, None, None, None, None)
    /\ nullpcts = None

\* the thresholds of a null distribution that has nonzero values
SignificanceThresholds == <<1>>

InitWith(od, n, probe, rinc, rexc, oinc, oexc) ==
    /\ pc = "start"
    /\ exitedfrom = ""
    /\ exitcause = ""
    /\ done_marker \in BOOLEAN
    /\ beforerun(od, n, probe, rinc, rexc, oinc, oexc)
    /\ nullpcts = SignificanceThresholds
    /\ nocalibration
    /\ noretro

\* options that pass the configuration checks
validconfig(od) ==
    /\ ~od.fakerun
    /\ od.realtr = 1
    /\ od.lagmin = -2
    /\ od.lagmax = 2

\* one worker, one MKL thread, no null distribution, plain correlation; a
\* confound file only in runs that are otherwise plain
plainworkers(od, w) ==
    /\ w.nprocs = 1
    /\ ~w.alwaysmultiproc
    /\ w.mklthreads = 1
    /\ w.numestreps = 0
    /\ w.similaritymetric = "correlation"
    /\ ~w.check_autocorrelation
    /\ w.fix_autocorrelation
    /\ ~w.calccoherence
    /\ ~w.dodeconv
    /\ w.gausssigma = 0
    /\ w.tincludemaskname = None
    /\ w.texcludemaskname = None
    /\ validconfig(od) => w.confoundfilespec = None

\* the plainest run: one pass, no despeckling, GLM filtering only
plainrun(od) ==
    /\ od.passes = 1
    /\ od.maxpasses = 1
    /\ od.convergencethresh = None
    /\ ~od.globalpreselect
    /\ od.despeckle_passes = 0
    /\ od.refinedespeckled
    /\ ~od.refineoffset
    /\ od.doglmfilt
    /\ ~od.docvrmap
    /\ ~od.refinedelay
    /\ ~od.filterwithrefineddelay

\* the pass loop and the lifecycle: every pass budget and convergence setting,
\* LoopUnits units, no static masks; runs stopped by a configuration check are plain
LoopOptions(od) ==
    IF validconfig(od)
    THEN          /\ od.despeckle_passes <= 1
         /\ od.refinedespeckled
         /\ ~od.refineoffset
         /\ ~od.docvrmap
         /\ od.refinedelay = od.filterwithrefineddelay
    ELSE plainrun(od)

Init ==
    \E od \in OptionSpace :
        /\ LoopOptions(od)
        /\ \E w \in WorkerSpace, probe \in Regressors :
              /\ plainworkers(od, w)
              /\ InitWith(od @@ w, LoopUnits, probe, None, None, None, None)

\* despeckling and the refine masks: one pass that is refined when
\* globalpreselect is set, on DespeckleUnits units with static masks
DespeckleOptions(od) ==
    IF validconfig(od)
    THEN          /\ od.passes = 1
         /\ od.maxpasses = 1
         /\ od.convergencethresh = None
         /\ od.despeckle_passes >= 1
         /\ od.doglmfilt
         /\ ~od.docvrmap
         /\ ~od.refinedelay
         /\ ~od.filterwithrefineddelay
    ELSE plainrun(od)

InitDespeckle ==
    \E od \in OptionSpace :
        /\ DespeckleOptions(od)
        /\ \E rinc \in {None, MaskOf(DespeckleUnits, 1..(DespeckleUnits - 1))},
              rexc \in MaskChoices(DespeckleUnits),
              oexc \in {None, MaskOf(DespeckleUnits, {2})} :
              /\ (~od.globalpreselect \/ ~validconfig(od) \/ od.refineoffset)
                    => (rinc = None /\ rexc = None)
              /\ (~od.globalpreselect \/ ~validconfig(od))
                    => (od.refinedespeckled /\ ~od.refineoffset)
              /\ od.refineoffset <=> oexc # None
              /\ \E w \in WorkerSpace :
                    /\ plainworkers(od, w)
                    /\ InitWith(od @@ w, DespeckleUnits, <<0, 0>>, rinc, rexc, None, oexc)

\* delay refinement and the final GLM: every combination of doglmfilt, docvrmap,
\* refinedelay and filterwithrefineddelay after a single pass
GLMOptions(od) ==
    IF validconfig(od)
    THEN          /\ od.passes = 1
         /\ od.maxpasses = 1
         /\ od.convergencethresh = None
         /\ od.despeckle_passes <= 1
         /\ od.refinedespeckled
         /\ ~od.refineoffset
    ELSE plainrun(od)

InitGLM ==
    \E od \in OptionSpace :
        /\ GLMOptions(od)
        /\ \E w \in WorkerSpace :
              /\ plainworkers(od, w)
              /\ InitWith(od @@ w, GLMUnits, <<0, 0>>, None, None, None, None)

\* the steps of a pass and the workers: every worker count, MKL thread
\* request, null-distribution and similarity-metric setting, every symmetric
\* lag range, with or without despeckling and delay refinement
symmetricrange(od) ==
    /\ ~od.fakerun
    /\ od.realtr = 1
    /\ od.lagmin = -od.lagmax

StepOptions(od) ==
    IF symmetricrange(od)
    THEN /\ od.maxpasses = od.passes
         /\ od.convergencethresh = None
         /\ ~od.globalpreselect
         /\ od.despeckle_passes <= 1
         /\ od.refinedespeckled
         /\ ~od.refineoffset
         /\ od.doglmfilt
         /\ ~od.docvrmap
         /\ od.refinedelay = od.filterwithrefineddelay
    ELSE plainrun(od)

\* a run of two passes in which every optional step and section runs, with
\* more than one worker and more than one MKL thread
fullrun(od, w) ==
    /\ validconfig(od)
    /\ od.passes = 2
    /\ od.despeckle_passes = 1
    /\ od.refinedelay
    /\ w.confoundfilespec # None
    /\ w.nprocs = 2
    /\ ~w.alwaysmultiproc
    /\ w.mklthreads = MklMaxThreads
    /\ w.numestreps = 1
    /\ w.similaritymetric = "hybrid"

\* a map as wide as the median filter for the full run, LoopUnits units for
\* the runs without despeckling
InitSteps ==
    \E od \in OptionSpace :
        /\ StepOptions(od)
        /\ \E w \in WorkerSpace, n \in {LoopUnits, mediankernel} :
              /\ symmetricrange(od) \/ plainworkers(od, w)
              \* alwaysmultiproc is read only when one worker was requested
              /\ w.alwaysmultiproc => w.nprocs = 1
              /\ ~w.check_autocorrelation
              /\ w.fix_autocorrelation
              /\ ~w.calccoherence
              /\ ~w.dodeconv
              /\ w.gausssigma = 0
              /\ w.tincludemaskname = None
              /\ w.texcludemaskname = None
              /\ IF n = mediankernel
                 THEN fullrun(od, w)
                 ELSE od.despeckle_passes = 0
              /\ InitWith(od @@ w, n, <<0, 0>>, None, None, None, None)

\* the autocorrelation check and the peak fitter: fixed-pass runs with and
\* without the check and the fix, with and without despeckling
FitterOptions(od) ==
    /\ validconfig(od)
    /\ od.maxpasses = od.passes
    /\ od.convergencethresh = None
    /\ ~od.globalpreselect
    /\ od.despeckle_passes <= 1
    /\ od.refinedespeckled
    /\ ~od.refineoffset
    /\ od.doglmfilt
    /\ ~od.docvrmap
    /\ ~od.refinedelay
    /\ ~od.filterwithrefineddelay

InitFitter ==
    \E od \in OptionSpace :
        /\ FitterOptions(od)
        /\ \E w \in WorkerSpace :
              /\ plainworkers(od, [w EXCEPT !.check_autocorrelation = FALSE,
                                            !.fix_autocorrelation = TRUE])
              /\ InitWith(od @@ w,
                          IF od.despeckle_passes > 0 THEN mediankernel ELSE LoopUnits,
                          <<0, 0>>, None, None, None, None)

\* shared memory: runs with two workers, every pass budget, convergence and
\* preselection setting, every combination of the GLM, coherence and
\* deconvolution stages
SharedMemOptions(od) ==
    /\ validconfig(od)
    /\ od.despeckle_passes <= 1
    /\ od.refinedespeckled
    /\ ~od.refineoffset
    /\ od.filterwithrefineddelay = od.refinedelay

InitSharedMem ==
    \E od \in OptionSpace :
        /\ SharedMemOptions(od)
        /\ \E w \in WorkerSpace :
              /\ plainworkers(od, [w EXCEPT !.nprocs = 1, !.calccoherence = FALSE,
                                            !.dodeconv = FALSE, !.gausssigma = 0])
              /\ w.nprocs = MaxCpus
              /\ InitWith(od @@ w, LoopUnits, <<0, 0>>, None, None, None, None)

\* the temporal mask: every pass budget, convergence and preselection setting,
\* with and without a temporal include and a temporal exclude mask
TemporalMaskOptions(od) ==
    /\ validconfig(od)
    /\ od.despeckle_passes <= 1
    /\ od.refinedespeckled
    /\ ~od.refineoffset
    /\ od.doglmfilt
    /\ ~od.docvrmap
    /\ ~od.refinedelay
    /\ ~od.filterwithrefineddelay

InitTemporalMask ==
    \E od \in OptionSpace :
        /\ TemporalMaskOptions(od)
        /\ \E w \in WorkerSpace, probe \in Regressors :
              /\ plainworkers(od, [w EXCEPT !.tincludemaskname = None,
                                            !.texcludemaskname = None])
              /\ InitWith(od @@ w, LoopUnits, probe, None, None, None, None)

\* significance estimation: fixed-pass runs with and without a null
\* distribution, whose sham correlations do or do not yield thresholds
SignificanceOptions(od) ==
    /\ validconfig(od)
    /\ od.maxpasses = od.passes
    /\ od.convergencethresh = None
    /\ od.despeckle_passes <= 1
    /\ od.refinedespeckled
    /\ ~od.refineoffset
    /\ ~od.docvrmap
    /\ ~od.refinedelay
    /\ ~od.filterwithrefineddelay

InitSignificance ==
    \E od \in OptionSpace :
        /\ SignificanceOptions(od)
        /\ \E w \in WorkerSpace, probe \in Regressors :
              /\ plainworkers(od, [w EXCEPT !.numestreps = 0])
              /\ pc = "start"
              /\ exitedfrom = ""
              /\ exitcause = ""
              /\ done_marker \in BOOLEAN
              /\ beforerun(od @@ w, LoopUnits, probe, None, None, None, None)
              /\ nullpcts \in {None, SignificanceThresholds}
              /\ nocalibration
              /\ noretro

----------------------------------------------------------------------------
\* The delay calibration (refinedelay.py 37-160, rapidtide.py 3371-3385)

\* derivative ratios, and the delays the interpolant can take
Ratios == 0..MaxRatio
DelayRange == -1..NumKnots

\* lagtimes[::-1]: the delays of the synthetic data, from the largest down
reverseddelays == [i \in 1..NumKnots |-> NumKnots - i]

\* CubicSpline accepts only strictly increasing abscissae
strictlyincreasing(x) == \A i \in 1..(Len(x) - 1) : x[i] < x[i + 1]

\* CubicSpline(x, y): passes through the knots; defined, by extrapolation,
\* outside them as well
CubicSpline(x, y) ==
    {f \in [Ratios -> DelayRange] : \A i \in DOMAIN x : f[x[i]] = y[i]}

\* an evaluation that does not clamp the ratio
ratiotodelay_unclamped(theratio, func, limits) == func[theratio]

\* ratiotodelay(theratio), with the two globals it reads
ratiotodelay(theratio, func, limits) ==
    IF theratio < limits[1]
    THEN func[limits[1]]
    ELSE IF theratio > limits[2]
    THEN func[limits[2]]
    ELSE func[theratio]

\* trainratiotooffset: fit the interpolant to the ratios of the synthetic data
TrainRatioToOffset ==
    /\ pc = "trainratiotooffset"
    /\ IF strictlyincreasing(trainingratios)
       THEN /\ \E f \in CubicSpline(trainingratios, trainingdelays) :
                  ratiotooffsetfunc' = f
            /\ maplimits' = <<trainingratios[1], trainingratios[Len(trainingratios)]>>
            /\ Goto("ratiotodelay")
       ELSE /\ Terminate("raised", "ratiosnotincreasing")
            /\ UNCHANGED <<ratiotooffsetfunc, maplimits>>
    /\ UNCHANGED <<runstate, retrostate, trainingratios, trainingdelays,
                   filteredglmderivratios, delayevals>>

\* for i in range(filteredglmderivratios.shape[0]): delayoffset[i] = ratiotodelay(...)
RatioToDelay ==
    /\ pc = "ratiotodelay"
    /\ LET i == Len(delayevals) + 1
           theratio == filteredglmderivratios[i]
       IN  /\ delayevals' = Append(delayevals,
                  [ratio |-> theratio,
                   delay |-> ratiotodelay(theratio, ratiotooffsetfunc, maplimits)])
           /\ IF i = Len(filteredglmderivratios)
              THEN Goto("delaysdone")
              ELSE Goto("ratiotodelay")
    /\ UNCHANGED <<runstate, retrostate, trainingratios, trainingdelays,
                   ratiotooffsetfunc, maplimits, filteredglmderivratios>>

\* the delay refinement is about to train its calibration: the ratios of the
\* synthetic data and the per-unit ratios are the inputs
InitDelay ==
    /\ pc = "trainratiotooffset"
    /\ exitedfrom = ""
    /\ exitcause = ""
    /\ done_marker = FALSE
    /\ norun
    /\ noretro
    /\ trainingratios \in [1..NumKnots -> 1..(MaxRatio - 1)]
    /\ trainingdelays = reverseddelays
    /\ ratiotooffsetfunc = None
    /\ maplimits = None
    /\ filteredglmderivratios \in [1..DelayUnits -> Ratios]
    /\ delayevals = <<>>

NextDelay ==
    \/ TrainRatioToOffset
    \/ RatioToDelay

SpecDelay == InitDelay /\ [][NextDelay]_vars

----------------------------------------------------------------------------
\* retroglm: the GLM filter re-run on the output of an earlier run (retroglm.py)

DEFAULT_GLMDERIVS == 0

\* the names the module defines
moduleattributes == {"_get_parser", "retroglm", "DEFAULT_GLMDERIVS"}

\* the options _get_parser declares; allow_abbrev is off
parseroptions == {"--alternateoutput", "--glmderivs", "--nprocs", "--numskip",
                  "--limitoutput", "--debug"}

\* the options of the three retroglm calls of test_fullrunrapidtide_v6
testoptions ==
    {{"--alternateoutput", "--nprocs", "--glmderivs", "--makepseudofile",
      "--outputlevel"},
     {"--alternateoutput", "--nprocs", "--glmderivs", "--makepseudofile",
      "--outputlevel", "--refinedelay", "--filterwithrefineddelay"},
     {"--alternateoutput", "--nprocs", "--glmderivs", "--refinedelay",
      "--filterwithrefineddelay", "--delaypatchthresh", "--outputlevel"}}

\* the files rapidtide_main leaves under its output root: the processed
\* mask, the lagged-regressor generator, the run options, the lag-time map
\* (maxtime) and the correlation-strength map (maxcorr)
firstrunfiles(od, mask, times, strengths) ==
    ("desc-processed_mask" :> mask)
    @@ ("desc-lagtcgenerator_timeseries" :> <<"genlagtc">>)
    @@ ("desc-runoptions_info" :> od)
    @@ ("desc-maxtime_map" :> times)
    @@ ("desc-maxcorr_map" :> strengths)

\* the positional arguments of the glmfrommaps call in rapidtide_main
rapidtideglmarguments ==
    <<"fmri_data_valid", "validvoxels", "initial_fmri_x", "lagtimes", "fitmask",
      "genlagtc", "mode", "outputname", "oversamptr", "glmmean", "rvalue",
      "r2value", "fitNorm", "fitcoeff", "movingsignal", "lagtc", "filtereddata",
      "LGR", "TimingLGR", "glmthreshval", "saveminimumglmfiles">>

\* the positional arguments of the glmfrommaps call in retroglm
retroglmarguments ==
    <<"fmri_data_valid", "glmmean", "rvalue", "r2value", "fitNorm", "fitcoeff",
      "movingsignal", "lagtc", "filtereddata", "lagtimes", "fitmask", "genlagtc",
      "mode", "outputname", "oversamptr", "LGR", "TimingLGR", "validvoxels",
      "initial_fmri_x", "glmthreshval">>

\* np.where(mask > 0)[0]
where(mask) ==
    SelectSeq([u \in DOMAIN mask |-> u], LAMBDA u : mask[u] > 0)

\* a[validvoxels]
selectvalid(a, validvoxels) == [k \in DOMAIN validvoxels |-> a[validvoxels[k]]]

\* the file retroglm reads its per-unit lags from
lagtimesfile == "desc-maxcorr_map"

\* the file retroglm reads the run options from
runoptionsfile == "options"

\* the caller asks the module for its argument parser and parses the command line
RetroParseArgs ==
    /\ pc = "retroargs"
    /\ IF entrypoint \notin moduleattributes
       THEN /\ Terminate("raised", "noattribute")
            /\ UNCHANGED args
       ELSE IF ~(inputargs.options \subseteq parseroptions)
       THEN /\ Terminate("exited", "unrecognizedarguments")
            /\ UNCHANGED args
       ELSE /\ args' = [glmderivs |-> IF "--glmderivs" \in inputargs.options
                                      THEN inputargs.glmderivs
                                      ELSE DEFAULT_GLMDERIVS,
                        nprocs |-> IF "--nprocs" \in inputargs.options
                                   THEN inputargs.nprocs ELSE 1,
                        numskip |-> IF "--numskip" \in inputargs.options
                                    THEN inputargs.numskip ELSE 0,
                        alternateoutput |-> "--alternateoutput" \in inputargs.options]
            /\ Goto("retroworkers")
    /\ UNCHANGED <<runstate, calibration, entrypoint, inputargs, outputfiles,
                   fmrifile, retrolocals, glmfrommapscall>>

\* the worker count is resolved first, shared memory is decided on the result
RetroWorkers ==
    /\ pc = "retroworkers"
    /\ \E cpus \in 1..MaxCpus :
          LET workers == resolvenprocs(args.nprocs, cpus)
          IN  /\ args' = [args EXCEPT !.nprocs = workers]
              /\ retrolocals' = [retrolocals EXCEPT !.usesharedmem = (workers # 1)]
    /\ Goto("retroread")
    /\ UNCHANGED <<runstate, calibration, entrypoint, inputargs, outputfiles,
                   fmrifile, glmfrommapscall>>

\* the run options, the processed mask and the per-unit lags are read
RetroReadInputs ==
    /\ pc = "retroread"
    /\ IF {runoptionsfile, "desc-processed_mask", lagtimesfile}
             \subseteq DOMAIN outputfiles
       THEN /\ retrolocals' = [retrolocals EXCEPT
                   !.therunoptions = outputfiles[runoptionsfile],
                   !.lagmask = outputfiles["desc-processed_mask"],
                   !.lagtimes = outputfiles[lagtimesfile]]
            /\ Goto("retroprepare")
       ELSE /\ Terminate("raised", "filenotfound")
            /\ UNCHANGED retrolocals
    /\ UNCHANGED <<runstate, calibration, entrypoint, inputargs, args, outputfiles,
                   fmrifile, glmfrommapscall>>

\* the time axis, the generator, the valid units and their data
RetroPrepare ==
    /\ pc = "retroprepare"
    /\ IF "desc-lagtcgenerator_timeseries" \in DOMAIN outputfiles
       THEN LET startpt == args.numskip
                endpt == fmrifile.timepoints - 1
                validtimepoints_ == endpt - startpt + 1
                validvoxels == where(retrolocals.lagmask)
            IN  /\ retrolocals' = [retrolocals EXCEPT
                       !.validtimepoints = validtimepoints_,
                       !.initial_fmri_x = [start |-> startpt * fmrifile.fmritr,
                                           samples |-> validtimepoints_],
                       !.validvoxels = validvoxels,
                       \* fmri_data_spacebytime[validvoxels, :]
                       !.fmri_data_valid = [units |-> Len(validvoxels),
                                            samples |-> fmrifile.timepoints],
                       !.lagtimes_valid = selectvalid(retrolocals.lagtimes, validvoxels),
                       !.lagmask_valid = selectvalid(retrolocals.lagmask, validvoxels)]
                /\ Goto("retroallocate")
       ELSE /\ Terminate("raised", "filenotfound")
            /\ UNCHANGED retrolocals
    /\ UNCHANGED <<runstate, calibration, entrypoint, inputargs, args, outputfiles,
                   fmrifile, glmfrommapscall>>

\* the output buffers, in shared memory or not
RetroAllocate ==
    /\ pc = "retroallocate"
    /\ LET internalvalidspaceshapederivs ==
               <<Len(retrolocals.validvoxels), args.glmderivs + 1>>
           internalvalidfmrishape ==
               <<Len(retrolocals.validvoxels), retrolocals.initial_fmri_x.samples>>
       IN  retrolocals' = [retrolocals EXCEPT
              !.fitNorm = internalvalidspaceshapederivs,
              !.fitcoeff = internalvalidspaceshapederivs,
              !.movingsignal = internalvalidfmrishape,
              !.lagtc = internalvalidfmrishape,
              !.filtereddata = internalvalidfmrishape]
    /\ Goto("retroglm")
    /\ UNCHANGED <<runstate, calibration, entrypoint, inputargs, args, outputfiles,
                   fmrifile, glmfrommapscall>>

\* tide_glmfrommaps.glmfrommaps is called; the routine either returns or fails
RetroGLM ==
    /\ pc = "retroglm"
    /\ glmfrommapscall' =
          [positional |-> retroglmarguments,
           fmri_data_valid |-> retrolocals.fmri_data_valid,
           lagtimes |-> retrolocals.lagtimes_valid,
           fitmask |-> retrolocals.lagmask_valid,
           validvoxels |-> retrolocals.validvoxels,
           initial_fmri_x |-> retrolocals.initial_fmri_x,
           fitcoeff |-> retrolocals.fitcoeff,
           filtereddata |-> retrolocals.filtereddata,
           nprocs_glm |-> args.nprocs,
           glmderivs |-> 0]
    /\ \E returned \in BOOLEAN :
          IF returned
          THEN Goto("retrosave")
          ELSE Terminate("raised", "glmfrommaps")
    /\ UNCHANGED <<runstate, calibration, entrypoint, inputargs, args, outputfiles,
                   fmrifile, retrolocals>>

\* the maps and the filtered data are written under the output name
RetroSave ==
    /\ pc = "retrosave"
    /\ outputfiles' =
          (  ("desc-lfofilterCoeff_map" :> retrolocals.fitcoeff)
          @@ ("desc-lfofilterCleaned_bold" :> retrolocals.filtereddata))
          @@ outputfiles
    /\ Goto("retrodone")
    /\ UNCHANGED <<runstate, calibration, entrypoint, inputargs, args, fmrifile,
                   retrolocals, glmfrommapscall>>

\* correlation strengths are written here as 5: no lag time has that value
Strengths == {5}

\* command lines: those of the test, and those the parser accepts
RetroOptionSets ==
    testoptions
    \cup {{"--alternateoutput", "--nprocs", "--glmderivs"},
          {"--nprocs", "--glmderivs", "--numskip"},
          {"--glmderivs", "--numskip", "--debug"},
          {}}

\* retroglm has not read anything yet
retrolocalsatentry ==
    [usesharedmem |-> FALSE, therunoptions |-> None, lagmask |-> None,
     lagtimes |-> None, validtimepoints |-> 0, initial_fmri_x |-> None,
     validvoxels |-> None, fmri_data_valid |-> None, lagtimes_valid |-> None,
     lagmask_valid |-> None, fitNorm |-> None, fitcoeff |-> None,
     movingsignal |-> None, lagtc |-> None, filtereddata |-> None]

\* a completed first run has left its files; a run options file under the
\* name retroglm looks for may or may not have been put next to them
InitRetro ==
    /\ pc = "retroargs"
    /\ exitedfrom = ""
    /\ exitcause = ""
    /\ done_marker = TRUE
    /\ norun
    /\ nocalibration
    /\ entrypoint \in {"process_args", "_get_parser"}
    /\ inputargs \in [options : RetroOptionSets, glmderivs : 0..MaxDerivs,
                       nprocs : {-1, 1}, numskip : 0..(MaxTimepoints - 1)]
    /\ args = None
    /\ fmrifile \in [timepoints : {MaxTimepoints}, fmritr : {2},
                      numspatiallocs : {RetroUnits}]
    /\ \E mask \in [1..RetroUnits -> {0, 1}], times \in [1..RetroUnits -> Lags],
          strengths \in [1..RetroUnits -> Strengths], oldoptions \in BOOLEAN :
          LET od == [outputname |-> "R", oversampfactor |-> 1]
              files == firstrunfiles(od, mask, times, strengths)
          IN  outputfiles = IF oldoptions
                            THEN (runoptionsfile :> od) @@ files
                            ELSE files
    /\ retrolocals = retrolocalsatentry
    /\ glmfrommapscall = None

NextRetro ==
    \/ RetroParseArgs
    \/ RetroWorkers
    \/ RetroReadInputs
    \/ RetroPrepare
    \/ RetroAllocate
    \/ RetroGLM
    \/ RetroSave

SpecRetro == InitRetro /\ [][NextRetro]_vars

Next ==
    \/ DeleteOldDone
    \/ CreateCanary
    \/ WriteInit
    \/ SetupWorkers
    \/ ReadData
    \/ PrepareMasks
    \/ ConfoundRegress
    \/ FakeRunOrResample
    \/ CheckSearchRange
    \/ AllocateArrays
    \/ PreprocessingDone
    \/ PassLoop
    \/ PreCorrelation
    \/ CalcSimilarity
    \/ PreSimFuncFit
    \/ FitCorr
    \/ DespeckleSubpass
    \/ PreRefine
    \/ RefineMask
    \/ SkipRefine
    \/ DoRefine
    \/ LoopExit
    \/ PreGLM
    \/ DelayRefine
    \/ FinalGLM
    \/ SaveOptions
    \/ FinalSave
    \/ UnlinkCanary
    \/ TouchDone

Spec == Init /\ [][Next]_vars

SpecDespeckle == InitDespeckle /\ [][Next]_vars

SpecSteps == InitSteps /\ [][Next]_vars
SpecGLM == InitGLM /\ [][Next]_vars

SpecFitter == InitFitter /\ [][Next]_vars

SpecSharedMem == InitSharedMem /\ [][Next]_vars

SpecTemporalMask == InitTemporalMask /\ [][Next]_vars

SpecSignificance == InitSignificance /\ [][Next]_vars

----------------------------------------------------------------------------
\* Properties

\* the number of passes that were started, read off the persisted labels
passesstarted ==
    Cardinality({i \in DOMAIN stagelog : stagelog[i].stage = "precorrelation_pass"})

\* the pass budget: maxpasses with a convergence threshold, passes without one
budget(od) == IF od.convergencethresh = None THEN od.passes ELSE od.maxpasses

\* C1: the pass loop stops when the convergence metric is below the threshold
\* or the pass budget is exhausted, whichever comes first: with a threshold, a
\* pass k+1 is started only if at pass k the regressor MSE was not below the
\* threshold and k was below maxpasses, and never more than the budget
\* (maxpasses with a threshold, passes without one) passes are started.
C1_PassLoopStops ==
    /\ passesstarted <= budget(optiondict)
    /\ (pc = "precorrelation" /\ thepass > 1 /\ optiondict.convergencethresh # None)
          => /\ regressormse >= optiondict.convergencethresh[1]
             /\ thepass - 1 < optiondict.maxpasses

\* C1 witness: with a budget of two passes the loop has ended after one
\* pass because the regressor converged
C1_Witness ==
    /\ pc = "loopexit"
    /\ optiondict.maxpasses = 2
    /\ optiondict.convergencethresh # None
    /\ refinestopreason = "convergence"
    /\ regressormse < optiondict.convergencethresh[1]
    /\ passesstarted = 1

\* the passes in which the refinement was left without a unit
emptymaskpasses ==
    {loglines[i].pass : i \in {j \in DOMAIN loglines :
        loglines[j].msg \in {"No voxels in refine mask", "refinement failed"}}}

\* C2: whenever the refine mask of a pass selects no unit, no further pass,
\* similarity computation or fit is executed, and the persisted run-options
\* record carries the empty-mask stop reason when the run has ended.
C2_EmptyMaskReasonPersisted ==
    \A k \in emptymaskpasses :
        /\ passesstarted = k
        /\ Len(simcalcs) = k
        /\ Terminated => runoptions.refinestopreason = "emptymask"

\* the number of suspects found by sub-pass i of the current pass
numsuspects(i) == Cardinality(despecklehistory[i].suspects)

despeckledunits ==
    UNION {despecklehistory[i].suspects :
              i \in {j \in DOMAIN despecklehistory : despecklehistory[j].refit}}

\* C4: when despeckling ran in a pass and refinedespeckled is off, every unit
\* that was flagged as a suspect and refit in a sub-pass of that pass is
\* excluded from the pass's refine mask, unless excluding them would empty it.
C4_DespeckledExcluded ==
    (/\ pc = "dorefine"
     /\ optiondict.despeckle_passes > 0
     /\ ~optiondict.refinedespeckled
     /\ ~fallbackused)
       => \A u \in despeckledunits : refinemask[u] = 0

\* C5: an exclude mask that would leave no unit for refinement never ends the
\* run: neither the static exclude mask at startup, nor the exclude mask
\* extended with the despeckled units, after which the pass falls back to the
\* static mask with a warning and goes on to refine.
C5_ExcludeNeverAborts ==
    /\ exitcause # "emptystaticrefinemask"
    /\ fallbackused => pc # "exited"

\* C6: once the stale marker has been deleted, the done marker exists only
\* when the run has completed: every stage has finished, the record with
\* currentstage 'done' has been written and the running marker is removed; it
\* does not exist on an abort or early-return path.
C6_DoneOnlyOnCompletion ==
    (pc # "start" /\ done_marker)
       => /\ pc = "finished"
          /\ exitcause = "completed"
          /\ runoptions # None
          /\ runoptions.currentstage = label("done")
          /\ ~running_marker

\* C6 witness: the run has completed and the done marker exists
C6_Witness ==
    /\ pc = "finished"
    /\ done_marker
    /\ ~running_marker
    /\ runoptions.currentstage = label("done")

\* C7: once rapidtide_main has terminated, on any termination path, the
\* running marker no longer exists.
C7_RunningMarkerRemoved ==
    Terminated => ~running_marker

\* the labels that may be persisted right after label a
follows(a, b) ==
    \/ a = label("init") /\ b = label("preprocessingdone")
    \/ a = label("preprocessingdone") /\ b = [stage |-> "precorrelation_pass", pass |-> 1]
    \/ a.stage = "precorrelation_pass" /\ b = [stage |-> "presimfuncfit_pass", pass |-> a.pass]
    \/ a.stage = "presimfuncfit_pass" /\ b = [stage |-> "prerefine_pass", pass |-> a.pass]
    \/ a.stage = "prerefine_pass" /\ b = [stage |-> "precorrelation_pass", pass |-> a.pass + 1]
    \/ a.stage = "prerefine_pass" /\ b = label("preglm")
    \/ a = label("preglm") /\ b \in {label("preglm"), label("done")}

\* the label of the last stage transition before each position of the run
stagereached(position, k) ==
    CASE position \in {"start", "canary", "init"} -> NoLabel
      [] position \in {"readdata", "masks", "confound", "fakerun", "searchrange",
                       "allocate", "preprocessingdone"} -> label("init")
      [] position \in {"passloop", "loopexit", "preglm"} /\ k = 0 ->
            label("preprocessingdone")
      [] position = "precorrelation" /\ k = 1 -> label("preprocessingdone")
      [] position = "precorrelation" /\ k > 1 -> [stage |-> "prerefine_pass", pass |-> k - 1]
      [] position \in {"similarity", "presimfuncfit"} ->
            [stage |-> "precorrelation_pass", pass |-> k]
      [] position \in {"fitcorr", "despeckle", "prerefine"} ->
            [stage |-> "presimfuncfit_pass", pass |-> k]
      [] position \in {"refine", "dorefine"} -> [stage |-> "prerefine_pass", pass |-> k]
      [] position \in {"delayrefine", "glm", "saveoptions", "finalsave"} ->
            label("preglm")
      [] position \in {"unlinkcanary", "touchdone"} -> label("done")
      [] OTHER -> optiondict.currentstage

\* C8: the record is persisted with the labels init, preprocessingdone, then
\* per executed pass k in increasing order precorrelation_pass k,
\* presimfuncfit_pass k, prerefine_pass k, then preglm, then done; the
\* sequence never goes backwards, and when the run stops the persisted label
\* names the last stage transition that was reached.
C8_StageLabelsInOrder ==
    /\ stagelog # <<>> => stagelog[1] = label("init")
    /\ \A i \in 1..(Len(stagelog) - 1) : follows(stagelog[i], stagelog[i + 1])
    /\ stagelog # <<>> => runoptions.currentstage = stagelog[Len(stagelog)]
    /\ (Terminated /\ runoptions # None)
          => runoptions.currentstage = stagereached(exitedfrom, thepass)
    /\ (Terminated /\ runoptions = None) => stagereached(exitedfrom, thepass) = NoLabel

\* C8 witness: a run of two passes has completed and persisted every label
C8_Witness ==
    /\ pc = "finished"
    /\ passesstarted = 2
    /\ runoptions.currentstage = label("done")
    /\ \E i \in DOMAIN stagelog : stagelog[i] = [stage |-> "prerefine_pass", pass |-> 2]

C10_ConvergenceMetric ==
    /\ Len(refinedhistory) = 1 => previousnormoutputdata = refinedhistory[1]
    /\ Len(refinedhistory) = 2 =>
          /\ regressormse = mse(refinedhistory[2], refinedhistory[1])
          /\ refinedhistory[2] = refinedhistory[1] => regressormse = 0
          /\ normoutputdata = refinedhistory[2]
          /\ previousnormoutputdata = refinedhistory[2]

\* C10 witness: the second refinement produced a regressor that differs from
\* the one of the first refinement, and the metric is not zero
C10_Witness ==
    /\ pc = "passloop"
    /\ thepass = 2
    /\ probeversion = 2
    /\ Len(refinedhistory) = 2
    /\ refinedhistory[2] # refinedhistory[1]
    /\ regressormse > 0

----------------------------------------------------------------------------
\* The steps of a pass

\* the position of a step inside a pass
steprank(step) ==
    CASE step = "nulldistribution" -> 0
      [] step = "similarity" -> 1
      [] step = "peakeval" -> 2
      [] step = "fitcorr" -> 3
      [] step = "despeckle" -> 4
      [] step = "refine" -> 5
      [] OTHER -> 6

passsteps == {"nulldistribution", "similarity", "peakeval", "fitcorr", "despeckle",
              "refine"}
afterloopsteps == {"delayglm", "glm"}
stepsof(kind) == {i \in DOMAIN steplog : steplog[i].step \in kind}

\* C11: in every pass the steps run in the order null distribution,
\* similarity, peak prefit, peak fit, despeckle refits, refinement; peak
\* prefit, peak fit and despeckle refits of pass k read the similarity
\* functions computed in pass k; the similarity of pass k reads the probe
\* refined in pass k - 1 (the initial probe in pass 1); the delay refinement
\* and the final GLM run only once the loop has been left, after every step
\* of every pass
C11_StepsInOrder ==
    /\ \A i, j \in stepsof(passsteps) :
          i < j =>
             /\ steplog[i].pass <= steplog[j].pass
             /\ steplog[i].pass = steplog[j].pass =>
                   \/ steprank(steplog[i].step) < steprank(steplog[j].step)
                   \/ steplog[i].step = "despeckle" /\ steplog[j].step = "despeckle"
    /\ \A i \in stepsof({"peakeval", "fitcorr", "despeckle"}) :
          /\ steplog[i].reads = steplog[i].pass
          /\ \E j \in stepsof({"similarity"}) :
                j < i /\ steplog[j].pass = steplog[i].pass
    /\ \A i \in stepsof({"similarity"}) : steplog[i].reads = steplog[i].pass - 1
    /\ \A i \in stepsof(afterloopsteps) :
          /\ optiondict.actual_passes # -1
          /\ \A j \in stepsof(passsteps) : j < i
          /\ \A j \in stepsof({"delayglm"}) : j <= i

\* a run of two passes with every optional step: the second pass computed its
\* similarity from the probe refined in the first, and the final GLM has run
C11_Witness ==
    /\ pc = "finished"
    /\ \A kind \in passsteps \cup afterloopsteps :
          \E i \in stepsof({kind}) : steplog[i].pass >= 1
    /\ \E i \in stepsof({"refine"}) : steplog[i].pass = 1
    /\ \E i \in stepsof({"similarity"}) :
          steplog[i].pass = 2 /\ steplog[i].reads = 1

----------------------------------------------------------------------------
\* MKL threads in the multi-worker sections

workersections == {"confoundregress", "nulldistribution", "similarity", "peakeval",
                   "fitcorr", "despeckle", "refine", "delayglm", "glm"}

\* C12: every section that ran with more than one worker (confound
\* regression, null distribution, similarity, peak prefit, peak fit,
\* despeckle refits, voxel alignment, the delay-refinement GLM, the final GLM)
\* ran with one MKL thread, and after it the thread count is mklthreads again.
C12_OneMklThreadWithWorkers ==
    /\ \A i \in stepsof(workersections) :
          steplog[i].nprocs > 1 => steplog[i].threads = 1
    /\ steplog # <<>> => mklnumthreads = optiondict.mklthreads

----------------------------------------------------------------------------
\* Shared memory

\* nprocs holds the effective worker count
workersresolved == pc \notin {"start", "canary", "init", "workers"}

\* C13: once a worker count below 1 has been resolved to the CPU count, shared
\* memory is in use if the effective worker count is above 1 and not in use
\* if it is 1 and alwaysmultiproc is off.
C13_SharedMemFollowsWorkers ==
    workersresolved =>
       /\ optiondict.nprocs > 1 => optiondict.sharedmem
       /\ (optiondict.nprocs = 1 /\ ~optiondict.alwaysmultiproc) => ~optiondict.sharedmem

----------------------------------------------------------------------------
\* The lag search window

\* lagmin = -L and lagmax = +L passed the range checks
symmetricaccepted ==
    /\ optiondict.lagmin = -optiondict.lagmax
    /\ lagwindow # None
    /\ exitcause # "narrowsearchrange"

\* C14: for a symmetric lag range accepted by the range checks, lagmininpts
\* equals lagmaxinpts, and every similarity calculation of every pass used
\* that same (lagmininpts, lagmaxinpts) window.
C14_SymmetricLagWindow ==
    symmetricaccepted =>
       /\ lagwindow[1] = lagwindow[2]
       /\ \A i \in stepsof({"similarity"}) : steplog[i].window = lagwindow

----------------------------------------------------------------------------
\* Configuration errors

\* |lagmin| or |lagmax| is more than half the valid data duration
lagbeyondhalf ==
    \/ 2 * Abs(optiondict.lagmin)
          > (optiondict.validend - optiondict.validstart + 1) * optiondict.realtr
    \/ 2 * Abs(optiondict.lagmax)
          > (optiondict.validend - optiondict.validstart + 1) * optiondict.realtr

\* the search range is narrower than 3 points
rangetoonarrow ==
    /\ optiondict.realtr > 0
    /\ lagmininpts(optiondict) + lagmaxinpts(optiondict) < 3

\* no pass was started: no similarity, no fit, no refinement
nopasswork ==
    /\ thepass = 0
    /\ simcalcs = <<>>
    /\ fitcalls = 0
    /\ normoutputdata = None
    /\ stepsof(passsteps) = {}

\* the claim as stated: a lag bound beyond half the valid duration or a search
\* range that is too narrow ends rapidtide_main with an error before any pass
C15_BadRangeRaises ==
    (lagbeyondhalf \/ rangetoonarrow) =>
       /\ nopasswork
       /\ Terminated => pc = "raised"

\* C15: a lag bound beyond half the valid duration ends rapidtide_main with an
\* error; a search range that is too narrow ends it with an error unless the
\* run stopped before that check (fakerun, or a confound regression without
\* regressors); in all these runs no pass is started and the run is never
\* completed.
C15_BadRangeNoPass ==
    /\ lagbeyondhalf => (nopasswork /\ (Terminated => pc = "raised"))
    /\ rangetoonarrow =>
          /\ nopasswork
          /\ Terminated =>
                \/ pc = "raised"
                \/ pc = "returned" /\ exitcause = "fakerun"
                \/ pc = "exited" /\ exitcause = "noconfoundregressors"

\* the narrow-range error was raised and nothing of a pass had run
C15_Witness ==
    /\ pc = "raised"
    /\ exitcause = "narrowsearchrange"
    /\ rangetoonarrow
    /\ nopasswork

----------------------------------------------------------------------------
\* The delay calibration

trainedratios == {trainingratios[i] : i \in DOMAIN trainingratios}
lowestratio == CHOOSE r \in trainedratios : \A q \in trainedratios : r <= q
highestratio == CHOOSE r \in trainedratios : \A q \in trainedratios : r >= q
delaytrainedat(r) ==
    trainingdelays[CHOOSE i \in DOMAIN trainingratios : trainingratios[i] = r]

\* C16: every ratiotodelay evaluation was made after the training had
\* completed; for a ratio below the lowest trained ratio it returned the delay
\* trained at the lowest ratio, for a ratio above the highest trained ratio
\* the delay trained at the highest ratio, and inside the trained range the
\* value of the interpolant.
C16_RatioToDelayClamps ==
    \A k \in DOMAIN delayevals :
       /\ ratiotooffsetfunc # None
       /\ delayevals[k].ratio < lowestratio =>
             delayevals[k].delay = delaytrainedat(lowestratio)
       /\ delayevals[k].ratio > highestratio =>
             delayevals[k].delay = delaytrainedat(highestratio)
       /\ (lowestratio <= delayevals[k].ratio /\ delayevals[k].ratio <= highestratio) =>
             delayevals[k].delay = ratiotooffsetfunc[delayevals[k].ratio]

\* both ends were clamped where the interpolant, extrapolated, gives another delay
C16_Witness ==
    /\ pc = "delaysdone"
    /\ \E k \in DOMAIN delayevals :
          /\ delayevals[k].ratio < lowestratio
          /\ ratiotooffsetfunc[delayevals[k].ratio] # delayevals[k].delay
    /\ \E k \in DOMAIN delayevals :
          /\ delayevals[k].ratio > highestratio
          /\ ratiotooffsetfunc[delayevals[k].ratio] # delayevals[k].delay

----------------------------------------------------------------------------
\* retroglm

\* only the files of the first run are under the data file root
onlyfirstrunfiles ==
    DOMAIN outputfiles \subseteq DOMAIN firstrunfiles(None, None, None, None)

\* C17: after a completed first run retroglm can be re-run as the test does:
\* the module provides process_args, the parser accepts the options of the
\* test's command lines, every file retroglm reads is among those the first
\* run left, and the GLM routine is called with the positional arguments of
\* the call in rapidtide_main.
C17_RetroglmRerun ==
    /\ entrypoint = "process_args" => exitcause # "noattribute"
    /\ inputargs.options \in testoptions => exitcause # "unrecognizedarguments"
    /\ onlyfirstrunfiles => exitcause # "filenotfound"
    /\ glmfrommapscall # None =>
          glmfrommapscall.positional = rapidtideglmarguments

\* C18: the GLM of retroglm includes derivatives up to NDERIVS: the routine
\* is asked for NDERIVS derivatives, that is NDERIVS + 1 coefficients per
\* unit, and NDERIVS + 1 coefficient columns are allocated.
C18_RetroglmDerivatives ==
    glmfrommapscall # None =>
       /\ glmfrommapscall.fitcoeff[2] = args.glmderivs + 1
       /\ glmfrommapscall.glmderivs + 1 = glmfrommapscall.fitcoeff[2]

\* C19: the per-unit lags handed to the GLM are the lag-time map (maxtime)
\* the first run wrote, restricted to the units of the processed mask.
C19_RetroglmUsesLagTimes ==
    glmfrommapscall # None =>
       glmfrommapscall.lagtimes =
          selectvalid(outputfiles["desc-maxtime_map"],
                      where(outputfiles["desc-processed_mask"]))

\* C20: with numskip n the per-unit data handed to the GLM and the
\* per-timepoint output buffers have timepoints - n samples, as many as the
\* time axis, which starts at n * TR.
C20_RetroglmSkipsTimepoints ==
    glmfrommapscall # None =>
       /\ glmfrommapscall.fmri_data_valid.samples = fmrifile.timepoints - args.numskip
       /\ glmfrommapscall.filtereddata[2] = fmrifile.timepoints - args.numskip
       /\ retrolocals.movingsignal[2] = fmrifile.timepoints - args.numskip
       /\ retrolocals.lagtc[2] = fmrifile.timepoints - args.numskip
       /\ glmfrommapscall.initial_fmri_x.samples = fmrifile.timepoints - args.numskip
       /\ glmfrommapscall.initial_fmri_x.start = args.numskip * fmrifile.fmritr

----------------------------------------------------------------------------
\* The autocorrelation check and the lag modulus

\* a fit of this pass is about to run, or has just run, with thefitter
fittingwiththefitter == pc \in {"fitcorr", "despeckle", "prerefine"}

\* C21: when the autocorrelation check of a pass finds a sidelobe at time t and
\* fix_autocorrelation is enabled, the peak fitter used for the fits and the
\* despeckle refits of that pass has lag modulus t/2; when the check finds no
\* sidelobe it has the default modulus.
C21_LagModulusFix ==
    (fittingwiththefitter /\ optiondict.check_autocorrelation)
       => IF sidelobetime # None /\ optiondict.fix_autocorrelation
          THEN 2 * thefitter.lagmod = sidelobetime[1]
          ELSE thefitter.lagmod = DEFAULT_LAGMOD

----------------------------------------------------------------------------
\* The recorded number of passes

\* C22: the actual_passes value recorded in the run options at loop exit equals
\* the number of passes the main loop executed, whatever the values of passes,
\* maxpasses and the convergence threshold and whatever stopped the loop.
C22_ActualPassesRecorded ==
    pc \in {"preglm", "delayrefine", "glm", "saveoptions", "finalsave"}
       => optiondict.actual_passes = passesstarted

----------------------------------------------------------------------------
\* The probe behind the lag map and the probe behind the GLM

\* the probe version against which the lags of the last executed pass were
\* estimated
lastestimationprobe == simcalcs[Len(simcalcs)].probe

\* C23: the lagged-regressor generator handed to the delay refinement and to
\* the final GLM holds the probe version against which the lag map of the last
\* executed pass was estimated: no refinement replaces the probe after the last
\* lag estimation, in fixed-pass, convergence and globalpreselect mode alike.
C23_GLMProbeIsLagProbe ==
    \A i \in DOMAIN steplog :
        steplog[i].step \in {"delayglm", "glm"}
           => steplog[i].reads = lastestimationprobe

----------------------------------------------------------------------------
\* The delay-corrected lag map at the GLM

\* the GLM is about to select its lag map
glmselectslags ==
    /\ pc = "glm"
    /\ optiondict.doglmfilt \/ optiondict.docvrmap

\* C24: whenever the final GLM selects the delay-corrected lag map
\* (filterwithrefineddelay set), the delay refinement has computed that map
\* earlier in the same run: no combination of doglmfilt, docvrmap, refinedelay
\* and filterwithrefineddelay reaches the GLM call with the corrected map
\* undefined.
C24_CorrectedLagsDefined ==
    /\ (glmselectslags /\ optiondict.filterwithrefineddelay)
          => /\ delayoffset # None
             /\ lagtimescorrected # None
    /\ exitcause # "lagtimescorrectedunbound"

----------------------------------------------------------------------------
\* Shared-memory buffers

\* the events of a kind for a buffer among the events before event i
shmbefore(op, i) ==
    {j \in 1..(i - 1) : shmlog[j] = [op |-> op, name |-> shmlog[i].name]}

\* the events of a kind for a buffer among the events after event i
shmafter(op, i) ==
    {j \in (i + 1)..Len(shmlog) : shmlog[j] = [op |-> op, name |-> shmlog[i].name]}

\* every cleanup releases a buffer that was allocated and not yet released
onlyallocatedreleased ==
    \A i \in DOMAIN shmlog :
        shmlog[i].op = "cleanup"
           => /\ shmbefore("alloc", i) # {}
              /\ shmbefore("cleanup", i) = {}

\* C25: every shared-memory buffer allocated by rapidtide_main is released
\* exactly once before the run completes, for every combination of passes,
\* convergencethresh, globalpreselect, doglmfilt, docvrmap, refinedelay,
\* calccoherence and dodeconv; and no buffer is released that was not
\* allocated.
C25_SharedMemoryReleased ==
    /\ onlyallocatedreleased
    /\ pc = "finished" =>
          \A i \in DOMAIN shmlog :
              shmlog[i].op = "alloc" => Cardinality(shmafter("cleanup", i)) = 1

----------------------------------------------------------------------------
\* The fit mask across the refinement step

\* a step of the refinement of a pass: the masks, then the new regressor
refinementstep == pc \in {"refine", "dorefine"}

\* C26: the refinement step leaves the per-unit fit mask of the peak fit
\* unchanged: building the offset-calculation mask and the
\* despeckle-exclusion check mask, which zero entries according to the static
\* include and exclude masks, never modifies fitmask.
C26_RefinementKeepsFitMask ==
    [][refinementstep => fitmask' = fitmask]_vars

----------------------------------------------------------------------------
\* The temporal mask

\* a pass is about to compute, or is computing, similarity against the probe
probeinuse == pc \in {"precorrelation", "similarity"}

\* C27: whenever a temporal include mask and/or a temporal exclude mask is
\* configured, the temporal mask has been applied to the probe regressor used
\* in every pass: to the initial probe and to each refined probe that replaces
\* it.
C27_TemporalMaskOnEveryProbe ==
    (probeinuse
     /\ (optiondict.tincludemaskname # None \/ optiondict.texcludemaskname # None))
       => probetmasked

----------------------------------------------------------------------------
\* Significance masks without thresholds

\* the null distribution of the last pass gave no percentile thresholds
nothresholds ==
    /\ optiondict.numestreps > 0
    /\ passesstarted > 0
    /\ pcts = None

\* C28: if significance estimation is enabled and the null distribution of the
\* last pass yields no percentile thresholds, the run still completes: the
\* significance-mask stage at the end of the run uses only thresholds that
\* exist and never fails.
C28_NoThresholdsStillCompletes ==
    nothresholds => /\ exitcause # "pctsnone"
                    /\ exitedfrom # "saveoptions"

----------------------------------------------------------------------------
\* The two lifecycle markers

\* C29: at no point during a run do the running marker and the done marker
\* exist at the same time: the old done marker is deleted before the running
\* marker is created, and the running marker is deleted before the new done
\* marker is created.
C29_MarkersNeverTogether ==
    /\ ~(running_marker /\ done_marker)
    /\ pc = "canary" => ~done_marker
    /\ pc = "touchdone" => ~running_marker

\* C29 witness: every stage has finished, the running marker has been deleted
\* and the done marker is about to be created
C29_Witness ==
    /\ pc = "touchdone"
    /\ ~running_marker
    /\ ~done_marker
    /\ runoptions.currentstage = label("done")
    /\ passesstarted > 0

====
